---------------------------- MODULE Spec2Model ----------------------------
(***************************************************************************)
(* Candidate generation and cost ranking of the SQL query optimizer.       *)
(*                                                                         *)
(* A query is a sequence of tokens.  A token is a piece of the query text  *)
(* that the program's regular expressions and substring tests never cut:   *)
(* one whitespace character, a keyword, an identifier, an operator.  The   *)
(* text facts the code tests on strings (lower(), "join" in q, len(q))     *)
(* are given per token by the tables below.                                *)
(***************************************************************************)
EXTENDS Integers, Sequences, FiniteSets, TLC

(***************************************************************************)
(* Text: tokens and the string operations of Python used by the code       *)
(***************************************************************************)

\* The keywords, each in the two letter cases the queries use.
KwUpper == {"SELECT", "FROM", "JOIN", "LEFT", "ON", "WHERE", "AND", "GROUP",
            "ORDER", "BY", "LIMIT", "BETWEEN", "LIKE", "IN"}

KwLower == {"select", "from", "join", "left", "on", "where", "and", "group",
            "order", "by", "limit", "between", "like", "in"}

\* str.lower() of one token (identifiers and literals are lower case already).
lower(t) ==
    CASE t = "SELECT" -> "select" [] t = "FROM" -> "from" [] t = "JOIN" -> "join"
      [] t = "LEFT" -> "left" [] t = "ON" -> "on" [] t = "WHERE" -> "where"
      [] t = "AND" -> "and" [] t = "GROUP" -> "group" [] t = "ORDER" -> "order"
      [] t = "BY" -> "by" [] t = "LIMIT" -> "limit" [] t = "BETWEEN" -> "between"
      [] t = "LIKE" -> "like" [] t = "IN" -> "in"
      [] t = "USE_NL" -> "use_nl" [] t = "USE_HASH" -> "use_hash"
      [] t = "UNION" -> "union" [] t = "COUNT(*)" -> "count(*)"
      [] OTHER -> t

\* Whitespace characters (\s).
IsWs(t) == t \in {" ", "\n"}

\* Tokens made of word characters only (\w+).
IsWord(t) ==
    t \in KwUpper \cup KwLower \cup
          {"employees", "departments", "projects", "salaries", "visits", "doctors",
           "t1", "e", "d", "p", "s", "v", "r", "a", "1", "5", "9", "10", "1000",
           "50000", "USE_NL", "USE_HASH"}

\* re.IGNORECASE match of a keyword: does the text of t equal kw (lower case)?
IsKw(t, kw) == lower(t) = kw

\* Is position i of q inside q, and a whitespace token?
WsAt(q, i) == i >= 1 /\ i <= Len(q) /\ IsWs(q[i])

Max(S) == CHOOSE x \in S : \A y \in S : x >= y

\* The end of the run of whitespace that starts at i: the first position >= i
\* that holds no whitespace (Len(q)+1 at the end of the text).  \s* from i.
RECURSIVE SkipWs(_, _)
SkipWs(q, i) == IF i <= Len(q) /\ IsWs(q[i]) THEN SkipWs(q, i + 1) ELSE i

\* name = value: what Body gives for the value of an expression, which is
\* computed once, as a local variable of the code is.
With(value, Body(_)) == Body(value)

\* The first position in lo..hi where P holds, or 0 when there is none.
FirstAt(lo, hi, P(_)) ==
    LET RECURSIVE Scan(_, _)
        Scan(l, h) ==
            IF l > h THEN 0
            ELSE IF l = h THEN (IF P(l) THEN l ELSE 0)
            ELSE With(Scan(l, (l + h) \div 2), LAMBDA left :
                    IF left # 0 THEN left ELSE Scan(((l + h) \div 2) + 1, h))
    IN Scan(lo, hi)

\* Piece(lo) \o ... \o Piece(hi): a text put together from what each position
\* of another text gives.
Gather(lo, hi, Piece(_)) ==
    LET RECURSIVE Cat(_, _)
        Cat(l, h) ==
            IF l > h THEN <<>>
            ELSE IF l = h THEN Piece(l)
            ELSE Cat(l, (l + h) \div 2) \o Cat(((l + h) \div 2) + 1, h)
    IN Cat(lo, hi)

\* str.strip(): whitespace removed at both ends.
strip(q) ==
    LET RECURSIVE Back(_)
        Back(j) == IF j >= 1 /\ IsWs(q[j]) THEN Back(j - 1) ELSE j
    IN SubSeq(q, SkipWs(q, 1), Back(Len(q)))

\* ' '.join(q.split()): every run of whitespace becomes one space, and the
\* runs at both ends vanish.
CollapseWs(q) ==
    Gather(1, Len(q), LAMBDA i :
        IF ~IsWs(q[i]) THEN <<q[i]>>
        ELSE IF i > 1 /\ IsWs(q[i - 1]) THEN <<>>
        ELSE <<" ">>)

\* The text as it is, where normalized collapses the whitespace.
unnormalized(q) == q

normalized(q) == CollapseWs(strip(q))

\* The whole sequence, where Prefix cuts it.
Untruncated(seq, n) == seq

\* seq[:n] of Python, n any integer: the first n elements, or all but the last
\* -n when n is negative.
Prefix(seq, n) ==
    IF n >= 0 THEN SubSeq(seq, 1, IF n < Len(seq) THEN n ELSE Len(seq))
    ELSE SubSeq(seq, 1, IF Len(seq) + n > 0 THEN Len(seq) + n ELSE 0)

\* Does pat occur in q at position i (str.find at a given place)?
OccursAt(q, pat, i) ==
    /\ i >= 1
    /\ i + Len(pat) - 1 <= Len(q)
    /\ \A k \in 1..Len(pat) : q[i + k - 1] = pat[k]

\* str.replace(old, new): every occurrence of old, left to right, not
\* overlapping.
ReplaceAll(q, old, new) ==
    LET RECURSIVE From(_)
        From(i) ==
            With(FirstAt(i, Len(q), LAMBDA k : OccursAt(q, old, k)), LAMBDA at :
                IF at = 0 THEN SubSeq(q, i, Len(q))
                ELSE SubSeq(q, i, at - 1) \o new \o From(at + Len(old)))
    IN IF old = <<>> THEN q ELSE From(1)

\* str.replace(old, new, 1): the first occurrence only.
ReplaceFirst(q, old, new) ==
    With(FirstAt(1, Len(q), LAMBDA i : OccursAt(q, old, i)), LAMBDA at :
        IF old = <<>> \/ at = 0 THEN q
        ELSE SubSeq(q, 1, at - 1) \o new \o SubSeq(q, at + Len(old), Len(q)))

\* map of lower over the text: query.lower().
Lower(q) == [i \in 1..Len(q) |-> lower(q[i])]

\* "sub" in q for a text sub that is a sequence of tokens.
Contains(q, pat) == \E i \in 1..Len(q) : OccursAt(q, pat, i)

(***************************************************************************)
(* The queries the model is run on                                         *)
(***************************************************************************)

\* Bounds of the family of input queries.
MaxJoins == 5

MaxLimit == 4

\* One keyword in the letter case of the query.
Kw(up, lc) == IF lc THEN lower(up) ELSE up

\* The whitespace between two clauses: one space, or a line break and an indent.
Sep(lines) == IF lines THEN <<"\n", " ">> ELSE <<" ">>

\* The tables that can be joined, in the order the family adds them.
JoinTables ==
    << [kw |-> <<"JOIN">>,               table |-> "departments", alias |-> "d",
        cond |-> <<"e.dept_id=d.dept_id">>],
       [kw |-> <<"LEFT", " ", "JOIN">>,  table |-> "projects",    alias |-> "p",
        cond |-> <<"d.dept_id=p.dept_id">>],
       [kw |-> <<"JOIN">>,               table |-> "salaries",    alias |-> "s",
        cond |-> <<"e.emp_id=s.emp_id">>],
       [kw |-> <<"JOIN">>,               table |-> "visits",      alias |-> "v",
        cond |-> <<"e.emp_id=v.emp_id">>],
       [kw |-> <<"JOIN">>,               table |-> "doctors",     alias |-> "r",
        cond |-> <<"v.doc_id=r.doc_id">>],
       [kw |-> <<"JOIN">>,               table |-> "t1",          alias |-> "a",
        cond |-> <<"r.doc_id=a.doc_id">>] >>

\* The text of join k of the family.
JoinText(k, lc, lines) ==
    LET j == JoinTables[((k - 1) % Len(JoinTables)) + 1]
    IN Sep(lines) \o [i \in 1..Len(j.kw) |-> Kw(j.kw[i], lc)]
       \o <<" ", j.table, " ", j.alias, " ", Kw("ON", lc), " ">> \o j.cond

RECURSIVE JoinsText(_, _, _)
JoinsText(n, lc, lines) ==
    IF n = 0 THEN <<>> ELSE JoinsText(n - 1, lc, lines) \o JoinText(n, lc, lines)

\* The conjuncts a WHERE clause of the family is made of (a comparison is
\* written without spaces, and is one token).
CondText(c, lc) ==
    CASE c = "gt"      -> <<"e.salary>50000">>
      [] c = "ge"      -> <<"e.salary>=5">>
      [] c = "eq"      -> <<"e.emp_id=5">>
      [] c = "deq"     -> <<"d.dept_id=1">>
      [] c = "like"    -> <<"e.name", " ", Kw("LIKE", lc), " ", "'%x%'">>
      [] c = "in"      -> <<"e.dept_id", " ", Kw("IN", lc), " ", "(1)">>
      [] c = "between" -> <<"e.hired", " ", Kw("BETWEEN", lc), " ", "1", " ",
                            Kw("AND", lc), " ", "9">>

RECURSIVE CondsText(_, _)
CondsText(cs, lc) ==
    IF Len(cs) = 1 THEN CondText(cs[1], lc)
    ELSE CondText(cs[1], lc) \o <<" ", Kw("AND", lc), " ">> \o CondsText(Tail(cs), lc)

\* The WHERE clause of the family: none, or a list of conjuncts.
WhereText(cs, lc, lines) ==
    IF cs = <<>> THEN <<>>
    ELSE Sep(lines) \o <<Kw("WHERE", lc), " ">> \o CondsText(cs, lc)

\* What follows the WHERE clause.
TailText(t, lc, lines) ==
    LET order == Sep(lines) \o <<Kw("ORDER", lc), " ", Kw("BY", lc), " ", "e.salary">>
        group == Sep(lines) \o <<Kw("GROUP", lc), " ", Kw("BY", lc), " ", "e.emp_id">>
    IN CASE t = "none"        -> <<>>
         [] t = "semi"        -> <<";">>
         [] t = "order"       -> order
         [] t = "order_col"   -> Sep(lines) \o <<Kw("ORDER", lc), " ", Kw("BY", lc), " ",
                                                 "e.credit_limit">>
         [] t = "group_order" -> group \o order
         [] t = "order_limit" -> order \o Sep(lines) \o <<Kw("LIMIT", lc), " ", "10">>

\* How the query is written: "plain" (upper-case keywords, single spaces),
\* "lower" (lower-case keywords), "lines" (a clause a line), and two queries
\* that are candidates of an earlier generation: "hint" (a hint after SELECT)
\* and "tablehint" (a hint after the FROM table).  The FROM table is a known
\* table with its alias ("employees"), or a table without alias ("bare").
Variants ==
    { [where |-> <<>>,                  tail |-> "none",        style |-> "plain",
       from |-> "employees"],
      [where |-> <<"like", "eq">>,      tail |-> "none",        style |-> "plain",
       from |-> "employees"],
      [where |-> <<"gt">>,              tail |-> "none",        style |-> "lines",
       from |-> "employees"],
      [where |-> <<"between", "eq">>,   tail |-> "semi",        style |-> "lower",
       from |-> "employees"],
      [where |-> <<"gt", "in", "eq">>,  tail |-> "group_order", style |-> "hint",
       from |-> "employees"],
      [where |-> <<"eq", "like">>,      tail |-> "order_limit", style |-> "tablehint",
       from |-> "employees"],
      [where |-> <<"gt">>,              tail |-> "order",       style |-> "plain",
       from |-> "bare"],
      [where |-> <<"between", "gt", "ge">>, tail |-> "none",    style |-> "plain",
       from |-> "employees"],
      [where |-> <<"gt">>,              tail |-> "order_col",   style |-> "plain",
       from |-> "employees"] }

Shapes ==
    { [joins |-> j, where |-> v.where, tail |-> v.tail, style |-> v.style,
       from |-> v.from] : j \in 0..MaxJoins, v \in Variants }

\* The query of a shape.
QueryOf(sh) ==
    LET lc    == sh.style = "lower"
        lines == sh.style = "lines"
    IN <<Kw("SELECT", lc), " ">>
       \o (IF sh.style = "hint" THEN <<"/*+", " ", "USE_NL", " ", "*/", " ">> ELSE <<>>)
       \o <<"e.emp_id">> \o Sep(lines) \o <<Kw("FROM", lc), " ">>
       \o (IF sh.from = "employees" THEN <<"employees", " ", "e">> ELSE <<"t1">>)
       \o (IF sh.style = "tablehint" THEN <<" ", "/*+", " ", "USE_NL(e)", " ", "*/">> ELSE <<>>)
       \o JoinsText(sh.joins, lc, lines)
       \o WhereText(sh.where, lc, lines)
       \o TailText(sh.tail, lc, lines)

(***************************************************************************)
(* Regular-expression pieces shared by the extractors                      *)
(***************************************************************************)

\* The leading \w+ of a token: the whole token for a word, the alias of a
\* qualified column (e.dept_id), nothing for punctuation.
WordHead(t) ==
    CASE IsWord(t) -> t
      [] t \in {"e.emp_id", "e.dept_id", "e.salary", "e.name", "e.hired", "e.credit_limit",
                "e.dept_id=d.dept_id", "e.emp_id=s.emp_id", "e.emp_id=v.emp_id",
                "e.salary>50000", "e.salary>=5", "e.emp_id=5"} -> "e"
      [] t \in {"d.dept_id=p.dept_id", "d.dept_id=1"} -> "d"
      [] t = "v.doc_id=r.doc_id" -> "v"
      [] t = "r.doc_id=a.doc_id" -> "r"
      [] OTHER -> ""

\* Is position i in q and the token there the keyword kw (in any case)?
KwAt(q, i, kw) == i >= 1 /\ i <= Len(q) /\ IsKw(q[i], kw)

\* \s+KW at position i: whitespace, then the keyword.
WsKwAt(q, i, kw) == WsAt(q, i) /\ KwAt(q, SkipWs(q, i), kw)

\* \s*$ at position i: only whitespace is left.
AtEnd(q, i) == SkipWs(q, i) = Len(q) + 1

\* (?:INNER\s+|LEFT\s+|RIGHT\s+|FULL\s+)?JOIN at position i: the position of
\* its JOIN, or 0.  (LEFT is the only join prefix of the alphabet.)
JoinKwEnd(q, i) ==
    IF KwAt(q, i, "join") THEN i
    ELSE IF KwAt(q, i, "left") /\ WsKwAt(q, i + 1, "join") THEN SkipWs(q, i + 1)
    ELSE 0

\* The lazy group (.+?) that starts at s and stops before the first place where
\* stop holds: its last position, or 0 when there is none.  With nosemi the
\* group is [^;]+? and cannot run over a semicolon.
LazyEnd(q, s, nosemi, stop(_)) ==
    With(FirstAt(s, Len(q), LAMBDA k : (nosemi /\ q[k] = ";") \/ stop(k + 1)),
         LAMBDA e : IF e = 0 \/ (nosemi /\ q[e] = ";") THEN 0 ELSE e)

(***************************************************************************)
(* optimizer/candidate_generator.py                                        *)
(***************************************************************************)

\* The end of (.+?) in SELECT\s+(.+?)\s+FROM when SELECT is at i, or 0.
SelectEnd(q, i) ==
    IF KwAt(q, i, "select") /\ WsAt(q, i + 1)
    THEN LazyEnd(q, SkipWs(q, i + 1), FALSE, LAMBDA n : WsKwAt(q, n, "from"))
    ELSE 0

\* re.search(r'SELECT\s+(.+?)\s+FROM'): group 1 of the leftmost match, or "*".
select_clause(q) ==
    With(FirstAt(1, Len(q), LAMBDA i : SelectEnd(q, i) # 0), LAMBDA at :
        IF at = 0 THEN <<"*">>
        ELSE SubSeq(q, SkipWs(q, at + 1), SelectEnd(q, at)))

\* re.search(r'FROM\s+(\w+)(?:\s+(\w+))?'): where its leftmost match starts, or 0.
FromAt(q) ==
    FirstAt(1, Len(q), LAMBDA i :
        /\ KwAt(q, i, "from") /\ WsAt(q, i + 1)
        /\ SkipWs(q, i + 1) <= Len(q)
        /\ WordHead(q[SkipWs(q, i + 1)]) # "")

\* Groups 1 and 2 of that match: the table, and the word after it if any
\* ("" stands for None).
from_match(q) ==
    With(FromAt(q), LAMBDA at :
    With(SkipWs(q, at + 1), LAMBDA t :
    With(SkipWs(q, t + 1), LAMBDA a :
        IF at = 0 THEN [table |-> "None", alias |-> ""]
        ELSE [table |-> WordHead(q[t]),
              alias |-> IF IsWord(q[t]) /\ WsAt(q, t + 1) /\ a <= Len(q)
                        THEN WordHead(q[a]) ELSE ""])))

\* What follows a join condition: (?=\s+(?:...)?JOIN|\s+WHERE|\s+GROUP|\s+ORDER|\s*$).
JoinCondStop(q, n) ==
    \/ WsAt(q, n) /\ JoinKwEnd(q, SkipWs(q, n)) # 0
    \/ WsKwAt(q, n, "where") \/ WsKwAt(q, n, "group") \/ WsKwAt(q, n, "order")
    \/ AtEnd(q, n)

\* One match of join_pattern with its join keyword starting at i: the join it
\* captures and the position where the match ends, or end = 0 for no match.
\* The alias is optional: (\w+)(?:\s+(\w+))?\s+ON\s+.
JoinMatchAt(q, i) ==
    With(JoinKwEnd(q, i), LAMBDA j :
    With(SkipWs(q, j + 1), LAMBDA t :
    With(SkipWs(q, t + 1), LAMBDA a :
        LET none == [end |-> 0, type |-> <<>>, table |-> "", alias |-> "",
                     condition |-> <<>>]
            \* \s+ON\s+ with ON at o, then the lazy condition
            rest(o, alias) ==
                IF KwAt(q, o, "on") /\ WsAt(q, o + 1)
                THEN With(SkipWs(q, o + 1), LAMBDA c :
                     With(LazyEnd(q, c, TRUE, LAMBDA n : JoinCondStop(q, n)), LAMBDA e :
                        IF e = 0 THEN none
                        ELSE [end |-> e, type |-> SubSeq(q, i, j), table |-> q[t],
                              alias |-> alias, condition |-> strip(SubSeq(q, c, e))]))
                ELSE none
        IN IF j = 0 \/ ~WsAt(q, j + 1) \/ t > Len(q) THEN none
           ELSE IF ~IsWord(q[t]) \/ ~WsAt(q, t + 1) \/ a > Len(q) THEN none
           ELSE With(IF IsWord(q[a]) /\ WsAt(q, a + 1)
                     THEN rest(SkipWs(q, a + 1), q[a]) ELSE none,
                     LAMBDA with_alias :
                        IF with_alias.end # 0 THEN with_alias ELSE rest(a, "")))))

\* re.finditer(join_pattern, query): the matches from position i on, left to
\* right, each search resuming where the match before it ended.
RECURSIVE JoinMatches(_, _)
JoinMatches(q, i) ==
    With(FirstAt(i, Len(q), LAMBDA k : JoinMatchAt(q, k).end # 0), LAMBDA at :
        IF at = 0 THEN <<>>
        ELSE With(JoinMatchAt(q, at), LAMBDA m :
                <<[type |-> m.type, table |-> m.table, alias |-> m.alias,
                   condition |-> m.condition]>> \o JoinMatches(q, m.end + 1)))

\* What ends a WHERE clause: (?=\s+GROUP|\s+ORDER|\s*$).
WhereStop(q, n) == WsKwAt(q, n, "group") \/ WsKwAt(q, n, "order") \/ AtEnd(q, n)

\* Where the leftmost match of WHERE\s+(.+?) followed by its end starts, or 0.
WhereAt(q) ==
    FirstAt(1, Len(q), LAMBDA i :
        /\ KwAt(q, i, "where") /\ WsAt(q, i + 1)
        /\ LazyEnd(q, SkipWs(q, i + 1), FALSE, LAMBDA n : WhereStop(q, n)) # 0)

\* Group 1 of the leftmost match of the WHERE pattern (<<>> when none).
where_group(q) ==
    With(WhereAt(q), LAMBDA at :
        IF at = 0 THEN <<>>
        ELSE With(SkipWs(q, at + 1), LAMBDA s :
                SubSeq(q, s, LazyEnd(q, s, FALSE, LAMBDA n : WhereStop(q, n)))))

extract_structure(q) ==
    With(from_match(q), LAMBDA from :
        [select     |-> select_clause(q),
         from_table |-> from.table,
         from_alias |-> from.alias,
         joins      |-> JoinMatches(q, 1),
         where      |-> strip(where_group(q))])

\* sep.join(parts) of Python.
RECURSIVE join(_, _)
join(sep, parts) ==
    IF parts = <<>> THEN <<>>
    ELSE IF Len(parts) = 1 THEN parts[1]
    ELSE parts[1] \o sep \o join(sep, Tail(parts))

\* The concatenation of a sequence of sequences.
RECURSIVE Flatten(_)
Flatten(ss) == IF ss = <<>> THEN <<>> ELSE Head(ss) \o Flatten(Tail(ss))

\* s without its element at position i.
Without(s, i) == SubSeq(s, 1, i - 1) \o SubSeq(s, i + 1, Len(s))

\* list(itertools.permutations(s)): every ordering of s, in the order
\* itertools yields them (lexicographic in the positions).
RECURSIVE permutations(_)
permutations(s) ==
    IF Len(s) <= 1 THEN <<s>>
    ELSE Flatten([i \in 1..Len(s) |->
            LET sub == permutations(Without(s, i))
            IN [k \in 1..Len(sub) |-> <<s[i]>> \o sub[k]]])

\* The random generator: its state is one of RngStates values; every draw
\* moves it to the next state, and what is drawn depends on the state alone.
RngStates == 3

Seed == 42

seed(n) == n % RngStates

RngStep(r) == (r + 1) % RngStates

RECURSIVE RngSteps(_, _)
RngSteps(r, n) == IF n <= 0 THEN r ELSE RngSteps(RngStep(r), n - 1)

\* The generator left as it is, where seeded sets it.
unseeded(deterministic, rng) == rng

\* if deterministic: random.seed(42)
seeded(deterministic, rng) == IF deterministic THEN seed(Seed) ELSE rng

\* The query that generate_join_permutations builds for one order of the joins.
BuildJoinQuery(struct, perm) ==
    LET from_part ==
            IF struct.from_alias # ""
            THEN <<"FROM", " ", struct.from_table, " ", struct.from_alias>>
            ELSE <<"FROM", " ", struct.from_table>>
        join_clause(jn) ==
            jn.type \o <<" ", jn.table>>
            \o (IF jn.alias # "" THEN <<" ", jn.alias>> ELSE <<>>)
            \o <<" ", "ON", " ">> \o jn.condition
        where_part ==
            IF struct.where # <<>> THEN << <<"WHERE", " ">> \o struct.where >> ELSE <<>>
    IN join(<<" ">>, << <<"SELECT", " ">> \o struct.select, from_part >>
                     \o [k \in 1..Len(perm) |-> join_clause(perm[k])]
                     \o where_part)

\* The permutation limit up to which every order of the joins is listed.
SmallJoinCount == 3

\* generate_join_permutations(struct, limit) with the generator in state rng.
\* With more than SmallJoinCount joins the code shuffles `limit` copies and then
\* builds set(perms) of tuples of dicts, which raises TypeError (a dict is not
\* hashable) unless perms is empty.
generate_join_permutations(struct, lim, rng) ==
    IF struct.joins = <<>> THEN [raised |-> FALSE, out |-> <<>>, rng |-> rng]
    ELSE IF Len(struct.joins) <= SmallJoinCount
    THEN With(Prefix(permutations(struct.joins), lim), LAMBDA perms :
            [raised |-> FALSE,
             out    |-> [k \in 1..Len(perms) |-> BuildJoinQuery(struct, perms[k])],
             rng    |-> rng])
    ELSE [raised |-> lim >= 1, out |-> <<>>, rng |-> RngSteps(rng, lim)]

\* str.split(sep) of Python for a non-empty separator.
RECURSIVE split(_, _)
split(q, sep) ==
    With(FirstAt(1, Len(q), LAMBDA i : OccursAt(q, sep, i)), LAMBDA at :
        IF at = 0 THEN <<q>>
        ELSE <<SubSeq(q, 1, at - 1)>> \o split(SubSeq(q, at + Len(sep), Len(q)), sep))

\* sorted(items, key=key): a stable sort; an item's place is the number of
\* items with a smaller key, or with the same key and an earlier position.
SortedBy(items, key(_)) ==
    LET place(i) == 1 + Cardinality({j \in 1..Len(items) :
                        \/ key(items[j]) < key(items[i])
                        \/ key(items[j]) = key(items[i]) /\ j < i})
    IN [p \in 1..Len(items) |-> items[CHOOSE i \in 1..Len(items) : place(i) = p]]

\* Character tests on one token.
HasEquals(t) ==
    t \in {"e.dept_id=d.dept_id", "d.dept_id=p.dept_id", "e.emp_id=s.emp_id",
           "e.emp_id=v.emp_id", "v.doc_id=r.doc_id", "r.doc_id=a.doc_id",
           "e.salary>=5", "e.emp_id=5", "d.dept_id=1"}

HasAngle(t) == t \in {"e.salary>50000", "e.salary>=5"}

\* selectivity_score of optimizer/candidate_generator.py (tests are
\* case-sensitive but for BETWEEN in the first one).
selectivity_score(condition) ==
    IF /\ \E k \in 1..Len(condition) : HasEquals(condition[k])
       /\ ~\E k \in 1..Len(condition) : IsKw(condition[k], "between")
    THEN 1
    ELSE IF \/ \E k \in 1..Len(condition) : condition[k] = "BETWEEN"
            \/ \E k \in 1..Len(condition) :
                  /\ condition[k] = "IN" /\ k + 2 <= Len(condition)
                  /\ condition[k + 1] = " " /\ condition[k + 2] = "(1)"
    THEN 2
    ELSE IF \E k \in 1..Len(condition) : HasAngle(condition[k])
    THEN 3
    ELSE 4

\* reorder_where_conditions of optimizer/candidate_generator.py.
reorder_where_conditions(query) ==
    With(where_group(query), LAMBDA group1 :
    With(split(strip(group1), <<" ", "AND", " ">>), LAMBDA parts :
    With([k \in 1..Len(parts) |-> strip(parts[k])], LAMBDA conditions :
        IF group1 = <<>> THEN query
        ELSE IF Len(conditions) > 1
             THEN ReplaceAll(query, group1,
                             join(<<" ", "AND", " ">>,
                                  SortedBy(conditions, selectivity_score)))
        ELSE query)))

\* The duplicate removal of generate_candidates: a candidate is kept unless a
\* candidate before it has the same whitespace-normalized SQL.
unique_candidates(candidates) ==
    LET normalized_q == [k \in 1..Len(candidates) |-> normalized(candidates[k].sql)]
        RECURSIVE Pick(_)
        Pick(k) == IF k > Len(candidates) THEN <<>>
                   ELSE (IF \A m \in 1..(k - 1) : normalized_q[m] # normalized_q[k]
                         THEN <<candidates[k]>> ELSE <<>>) \o Pick(k + 1)
    IN Pick(1)

\* The candidates that the index-hint rules add.
index_hints(query) ==
    LET hint(tag, tbl, al, h) ==
            <<[strategy |-> tag,
               sql |-> ReplaceAll(query, <<tbl, " ", al>>,
                                  <<tbl, " ", al, " ", "/*+", " ">> \o h \o <<" ", "*/">>)]>>
    IN (IF Contains(Lower(query), <<"employees", " ", "e">>)
        THEN hint("index_hint_nested_loop", "employees", "e", <<"USE_NL(e)">>)
             \o hint("index_hint_hash", "employees", "e", <<"USE_HASH(e)">>)
        ELSE <<>>)
       \o (IF Contains(Lower(query), <<"departments", " ", "d">>)
           THEN hint("index_hint_primary", "departments", "d",
                     <<"INDEX(d,", " ", "PRIMARY)">>)
           ELSE <<>>)

\* The candidate of the WHERE rule.
where_reorder(query) ==
    With(reorder_where_conditions(query), LAMBDA where_reordered :
        IF /\ \E k \in 1..Len(query) : IsKw(query[k], "where")
           /\ \E k \in 1..Len(query) : IsKw(query[k], "and")
           /\ where_reordered # query
        THEN <<[strategy |-> "where_reorder", sql |-> where_reordered]>>
        ELSE <<>>)

JoinOrderTag(i) ==
    CASE i = 1 -> "join_order_1" [] i = 2 -> "join_order_2" [] i = 3 -> "join_order_3"
      [] i = 4 -> "join_order_4" [] i = 5 -> "join_order_5" [] i = 6 -> "join_order_6"
      [] OTHER -> "join_order_n"

\* generate_candidates(query, limit, deterministic) of
\* optimizer/candidate_generator.py, run with the generator in state rng0:
\* the list it returns (ret), the list it had built before the duplicates went
\* (candidates), whether it came back through its except branch (fallback),
\* whether an exception left it (raised), and the state it leaves the generator in.
generate_candidates(query, lim, deterministic, rng0) ==
    With(generate_join_permutations(extract_structure(query), (lim \div 2) + 2,
                                    seeded(deterministic, rng0)),
         LAMBDA join_perms :
    With(<<[strategy |-> "original", sql |-> query]>>
         \o [i \in 1..Len(join_perms.out) |->
                 [strategy |-> JoinOrderTag(i), sql |-> join_perms.out[i]]]
         \o index_hints(query)
         \o where_reorder(query),
         LAMBDA candidates :
       IF join_perms.raised
       THEN [rng |-> join_perms.rng, raised |-> FALSE, fallback |-> TRUE,
             candidates |-> <<[strategy |-> "original", sql |-> query]>>,
             ret |-> <<[strategy |-> "original", sql |-> query]>>]
       ELSE [rng |-> join_perms.rng, raised |-> FALSE, fallback |-> FALSE,
             candidates |-> candidates,
             ret |-> Prefix(unique_candidates(candidates), lim)]))

(***************************************************************************)
(* ml_optimizer/candidate_generator.py                                     *)
(***************************************************************************)

\* random.sample(items, len(items)) and random.shuffle(items): a reordering
\* of the items that the state of the generator alone decides.
Shuffled(items, r) ==
    IF items = <<>> THEN items
    ELSE LET n == Len(items)
         IN [k \in 1..n |-> items[((k - 1 + r) % n) + 1]]

\* The keywords that end the WHERE group of sqlparse.
WhereCloseAt(q, i) ==
    \/ KwAt(q, i, "limit")
    \/ (KwAt(q, i, "order") \/ KwAt(q, i, "group")) /\ WsKwAt(q, i + 1, "by")

\* extract_structure of ml_optimizer: the top-level tokens of sqlparse whose
\* text starts with FROM (the keyword itself), that contain JOIN (the join
\* keywords, LEFT JOIN being one token), and the WHERE group, which runs up to
\* the next ORDER BY, GROUP BY or LIMIT, or to the end of the statement.
ml_extract_structure(q) ==
    With(FirstAt(1, Len(q), LAMBDA i : KwAt(q, i, "where")), LAMBDA w :
    With(FirstAt(w + 1, Len(q), LAMBDA i : WhereCloseAt(q, i)), LAMBDA wclose :
    With(IF wclose = 0 THEN Len(q) ELSE wclose - 1, LAMBDA wend :
        LET \* positions outside the WHERE group
            Top(i) == w = 0 \/ i < w \/ i > wend
            RECURSIVE Joins(_)
            Joins(i) ==
                With(FirstAt(i, Len(q), LAMBDA k : Top(k) /\ JoinKwEnd(q, k) # 0),
                     LAMBDA at :
                        IF at = 0 THEN <<>>
                        ELSE With(JoinKwEnd(q, at), LAMBDA e :
                                <<SubSeq(q, at, e)>> \o Joins(e + 1)))
        IN With({i \in 1..Len(q) : Top(i) /\ KwAt(q, i, "from")}, LAMBDA froms :
            [from  |-> IF froms = {} THEN <<>> ELSE <<q[Max(froms)]>>,
             joins |-> Joins(1),
             where |-> IF w = 0 THEN <<>> ELSE SubSeq(q, w, wend)]))))

\* The query that join_permutations and reverse_joins build for one order.
MlJoinQuery(struct, perm) ==
    strip(<<"SELECT", " ", "*", " ">>
          \o (IF struct.from # <<>> THEN struct.from \o <<" ">> ELSE <<>>)
          \o join(<<" ">>, perm)
          \o (IF struct.where # <<>> THEN <<" ">> \o struct.where ELSE <<>>))

\* The number of joins up to which every order is listed.
AllPermutationsMax == 4

\* join_permutations(query, limit, deterministic) with the generator in state
\* rng.  itertools.islice raises ValueError for a negative limit.
join_permutations(query, lim, deterministic, rng) ==
    With(ml_extract_structure(query), LAMBDA struct :
    With(seeded(deterministic, rng), LAMBDA rng1 :
        IF struct.joins = <<>> THEN [raised |-> FALSE, out |-> <<>>, rng |-> rng]
        ELSE IF lim < 0
        THEN [raised |-> TRUE, out |-> <<>>,
              rng |-> IF Len(struct.joins) <= AllPermutationsMax THEN rng ELSE rng1]
        ELSE IF Len(struct.joins) <= AllPermutationsMax
        THEN With(Prefix(permutations(struct.joins), lim), LAMBDA perms :
                [raised |-> FALSE, rng |-> rng,
                 out |-> [k \in 1..Len(perms) |->
                             [strategy |-> "join_perm",
                              sql |-> MlJoinQuery(struct, perms[k])]]])
        ELSE [raised |-> FALSE, rng |-> RngSteps(rng1, lim),
              out |-> [k \in 1..lim |->
                          [strategy |-> "join_perm",
                           sql |-> MlJoinQuery(struct,
                                       Shuffled(struct.joins, RngSteps(rng1, k - 1)))]]]))

\* reversed(joins).
reversed(items) == [k \in 1..Len(items) |-> items[Len(items) + 1 - k]]

reverse_joins(query) ==
    With(ml_extract_structure(query), LAMBDA struct :
        IF struct.joins = <<>> THEN <<>>
        ELSE <<[strategy |-> "reverse_joins",
                sql |-> MlJoinQuery(struct, reversed(struct.joins))]>>)

predicate_pushdown(query) ==
    With(ml_extract_structure(query), LAMBDA struct :
        IF struct.where = <<>> THEN <<>>
        ELSE <<[strategy |-> "predicate_pushdown",
                sql |-> strip(ReplaceFirst(
                            ReplaceFirst(query, <<"FROM">>,
                                <<"FROM", " ", "(", "SELECT", " ", "*", " ", "FROM">>),
                            struct.where, <<")">> \o struct.where))]>>)

\* Does the text of the token end with a closing parenthesis?
EndsWithParen(t) == t \in {")", "(1)", "USE_NL(e)", "USE_HASH(e)", "PRIMARY)"}

exists_rewrite(query) ==
    With(ReplaceAll(query, <<"JOIN">>,
                    <<"WHERE", " ", "EXISTS", " ", "(", "SELECT", " ", "1", " ", "FROM">>),
         LAMBDA q1 :
         With(strip(q1), LAMBDA stripped :
            IF \E k \in 1..Len(query) : IsKw(query[k], "join")
            THEN <<[strategy |-> "exists_rewrite",
                    sql |-> strip(IF stripped # <<>> /\ EndsWithParen(stripped[Len(stripped)])
                                  THEN q1 ELSE q1 \o <<")">>)]>>
            ELSE <<>>))

\* The list as it is, where original_first sorts it.
original_unsorted(unique) == unique

\* sorted(unique, key=lambda x: 0 if x[0] == "original" else 1)
original_first(unique) ==
    SortedBy(unique, LAMBDA c : IF c.strategy = "original" THEN 0 ELSE 1)

\* The first of the candidates with each SQL text, in the order produced.
ml_unique(candidates) ==
    LET RECURSIVE Unique(_)
        Unique(k) == IF k > Len(candidates) THEN <<>>
                     ELSE (IF \A m \in 1..(k - 1) : candidates[m].sql # candidates[k].sql
                           THEN <<candidates[k]>> ELSE <<>>) \o Unique(k + 1)
    IN Unique(1)

\* generate_candidates(query, limit, deterministic) of ml_optimizer, run with
\* the generator in state rng0: duplicates are equal strings here; the list
\* is shuffled unless deterministic, and the stable sort brings "original"
\* to the front.
ml_generate_candidates(query, lim, deterministic, rng0) ==
    With(join_permutations(query, lim, deterministic, rng0), LAMBDA perms :
        IF perms.raised
        THEN [rng |-> perms.rng, raised |-> TRUE, fallback |-> FALSE,
              candidates |-> <<[strategy |-> "original", sql |-> query]>>, ret |-> <<>>]
        ELSE With(<<[strategy |-> "original", sql |-> query]>>
                  \o perms.out
                  \o reverse_joins(query)
                  \o predicate_pushdown(query)
                  \o exists_rewrite(query), LAMBDA candidates :
             With(IF deterministic THEN ml_unique(candidates)
                  ELSE Shuffled(ml_unique(candidates), perms.rng), LAMBDA unique :
                [rng |-> IF deterministic THEN perms.rng ELSE RngStep(perms.rng),
                 raised |-> FALSE, fallback |-> FALSE,
                 candidates |-> candidates,
                 ret |-> Prefix(original_first(unique), lim)])))

(***************************************************************************)
(* simple_candidates.py                                                    *)
(***************************************************************************)

\* query.lower().count("join"): the alphabet has "join" in the join keywords
\* only.
JoinCount(q) == Cardinality({i \in 1..Len(q) : IsKw(q[i], "join")})

\* The two hint candidates: the first "SELECT" (in capitals) gets the hint
\* behind it; a query without it yields nothing.
hint_candidates(query) ==
    LET hinted(h) ==
            With(ReplaceFirst(query, <<"SELECT">>,
                              <<"SELECT", " ", "/*+", " ", h, " ", "*/">>),
                 LAMBDA c : IF c # query THEN <<c>> ELSE <<>>)
    IN IF JoinCount(query) > 0 THEN hinted("USE_NL") \o hinted("USE_HASH") ELSE <<>>

\* What ends the pattern of convert_to_where_joins: (?:\s+ORDER|\s+GROUP|\s*$).
ConvertStop(q, n) == WsKwAt(q, n, "order") \/ WsKwAt(q, n, "group") \/ AtEnd(q, n)

\* (?:\s+WHERE\s+([^;]+?))? followed by the end of the pattern, tried at n: the
\* last position of the WHERE condition when the optional group takes part in
\* the match, else 0.
ConvertWhereEnd(q, n) ==
    With(SkipWs(q, n), LAMBDA w :
        IF WsKwAt(q, n, "where") /\ WsAt(q, w + 1)
        THEN LazyEnd(q, SkipWs(q, w + 1), TRUE, LAMBDA m : ConvertStop(q, m))
        ELSE 0)

\* The match of FROM\s+(\w+)\s+(\w+)\s+JOIN\s+(\w+)\s+(\w+)\s+ON\s+([^;]+?)... that
\* starts at the FROM at i: found = FALSE when there is none.
ConvertMatchAt(q, i) ==
    LET word(k) == k <= Len(q) /\ IsWord(q[k]) /\ WsAt(q, k + 1)
        none == [found |-> FALSE, table1 |-> "", alias1 |-> "", table2 |-> "",
                 alias2 |-> "", join_condition |-> <<>>, where_condition |-> <<>>]
        \* the condition from c on, after FROM t1 a1 JOIN t2 a2 ON
        matched(t1, a1, t2, a2, c) ==
            With(LazyEnd(q, c, TRUE,
                         LAMBDA n : ConvertWhereEnd(q, n) # 0 \/ ConvertStop(q, n)),
                 LAMBDA e :
                    IF e = 0 THEN none
                    ELSE With(ConvertWhereEnd(q, e + 1), LAMBDA we :
                        [found |-> TRUE, table1 |-> q[t1], alias1 |-> q[a1],
                         table2 |-> q[t2], alias2 |-> q[a2],
                         join_condition |-> SubSeq(q, c, e),
                         where_condition |->
                             IF we = 0 THEN <<>>
                             ELSE SubSeq(q, SkipWs(q, SkipWs(q, e + 1) + 1), we)]))
    IN With(SkipWs(q, i + 1), LAMBDA t1 :
       With(SkipWs(q, t1 + 1), LAMBDA a1 :
       With(SkipWs(q, a1 + 1), LAMBDA j :
       With(SkipWs(q, j + 1), LAMBDA t2 :
       With(SkipWs(q, t2 + 1), LAMBDA a2 :
       With(SkipWs(q, a2 + 1), LAMBDA o :
            IF /\ KwAt(q, i, "from") /\ WsAt(q, i + 1)
               /\ word(t1) /\ word(a1)
               /\ KwAt(q, j, "join") /\ WsAt(q, j + 1)
               /\ word(t2) /\ word(a2)
               /\ KwAt(q, o, "on") /\ WsAt(q, o + 1)
            THEN matched(t1, a1, t2, a2, SkipWs(q, o + 1))
            ELSE none))))))

\* re.search(r'ORDER\s+BY\s+[^;]+') and its GROUP twin: from the keyword to the
\* end of the text, or to the semicolon before it.
ByClause(q, kw) ==
    With(FirstAt(1, Len(q), LAMBDA i :
            /\ KwAt(q, i, kw) /\ WsKwAt(q, i + 1, "by")
            /\ With(SkipWs(q, i + 1), LAMBDA b :
               With(SkipWs(q, b + 1), LAMBDA n :
                    /\ WsAt(q, b + 1)
                    /\ ((n <= Len(q) /\ q[n] # ";") \/ n - (b + 1) >= 2)))),
         LAMBDA start :
            IF start = 0 THEN <<>>
            ELSE With(FirstAt(start + 1, Len(q), LAMBDA i : q[i] = ";"), LAMBDA semi :
                    SubSeq(q, start, IF semi = 0 THEN Len(q) ELSE semi - 1)))

\* convert_to_where_joins(query).
convert_to_where_joins(query) ==
    IF JoinCount(query) > 2 THEN query
    ELSE IF FirstAt(1, Len(query), LAMBDA i : SelectEnd(query, i) # 0) = 0 THEN query
    ELSE With(FirstAt(1, Len(query), LAMBDA i : ConvertMatchAt(query, i).found),
              LAMBDA at :
        IF at = 0 THEN query
        ELSE With(ConvertMatchAt(query, at), LAMBDA m :
             With(ByClause(query, "order"), LAMBDA order_match :
             With(ByClause(query, "group"), LAMBDA group_match :
                <<"SELECT", " ">> \o select_clause(query)
                \o <<"\n", "FROM", " ", m.table1, " ", m.alias1, ",", " ", m.table2,
                     " ", m.alias2, "\n", "WHERE", " ">> \o m.join_condition
                \o (IF m.where_condition # <<>>
                    THEN <<" ", "AND", " ">> \o strip(m.where_condition) ELSE <<>>)
                \o (IF order_match # <<>> THEN <<"\n">> \o order_match ELSE <<>>)
                \o (IF group_match # <<>> THEN <<"\n">> \o group_match ELSE <<>>)))))

\* re.split(r'\s+and\s+', text, flags=re.IGNORECASE).
RECURSIVE split_and(_)
split_and(q) ==
    With(FirstAt(1, Len(q), LAMBDA i :
            /\ WsAt(q, i)
            /\ With(SkipWs(q, i), LAMBDA a : KwAt(q, a, "and") /\ WsAt(q, a + 1))),
         LAMBDA at :
            IF at = 0 THEN <<q>>
            ELSE <<SubSeq(q, 1, at - 1)>>
                 \o split_and(SubSeq(q, SkipWs(q, SkipWs(q, at) + 1), Len(q))))

\* selectivity_score of simple_candidates.py (tests on the lower-case text).
simple_selectivity_score(condition) ==
    LET has(kw) == \E k \in 1..Len(condition) : IsKw(condition[k], kw)
    IN IF (\E k \in 1..Len(condition) : HasEquals(condition[k])) /\ ~has("like")
       THEN 1
       ELSE IF has("between") \/ \E k \in 1..Len(condition) : HasAngle(condition[k])
       THEN 2
       ELSE IF \E k \in 2..(Len(condition) - 2) :
                  /\ condition[k - 1] = " " /\ IsKw(condition[k], "in")
                  /\ condition[k + 1] = " " /\ condition[k + 2] = "(1)"
       THEN 3
       ELSE IF has("like") THEN 4
       ELSE 5

\* reorder_where_conditions of simple_candidates.py.
simple_reorder_where_conditions(query) ==
    With(where_group(query), LAMBDA group1 :
    With(strip(group1), LAMBDA where_clause :
    With(split_and(where_clause), LAMBDA parts :
    With([k \in 1..Len(parts) |-> strip(parts[k])], LAMBDA conditions :
    With(SortedBy(conditions, simple_selectivity_score), LAMBDA sorted_conditions :
        IF group1 = <<>> THEN query
        ELSE IF /\ Contains(Lower(where_clause), <<" ", "and", " ">>)
                /\ sorted_conditions # conditions
             THEN ReplaceAll(query, where_clause,
                             join(<<" ", "AND", " ">>, sorted_conditions))
        ELSE query)))))

\* str.rstrip('; \t\n').
RECURSIVE rstrip(_)
rstrip(q) ==
    IF q # <<>> /\ q[Len(q)] \in {";", " ", "\n"}
    THEN rstrip(SubSeq(q, 1, Len(q) - 1)) ELSE q

\* "limit" in t.lower() for one token.
LimitIn(t) == lower(t) \in {"limit", "e.credit_limit"}

\* The candidate of the LIMIT rule.
limited(query) ==
    IF /\ Contains(Lower(query), <<"order", " ", "by">>)
       /\ ~\E k \in 1..Len(query) : LimitIn(query[k])
    THEN <<rstrip(query) \o <<" ", "LIMIT", " ", "1000">>>>
    ELSE <<>>

\* The duplicate removal of generate_simple_candidates.
simple_unique_candidates(candidates) ==
    With([k \in 1..Len(candidates) |-> normalized(candidates[k])], LAMBDA normalized_q :
        LET RECURSIVE Pick(_)
            Pick(k) == IF k > Len(candidates) THEN <<>>
                       ELSE (IF \A m \in 1..(k - 1) : normalized_q[m] # normalized_q[k]
                             THEN <<candidates[k]>> ELSE <<>>) \o Pick(k + 1)
        IN Pick(1))

\* generate_simple_candidates(query, limit): the list of SQL texts it returns
\* (this generator has no tags and draws no random numbers).
generate_simple_candidates(query, lim, rng0) ==
    With(convert_to_where_joins(query), LAMBDA where_based :
    With(simple_reorder_where_conditions(query), LAMBDA reordered_where :
    With(<<query>>
         \o hint_candidates(query)
         \o (IF JoinCount(query) <= 2 /\ where_based # <<>> /\ where_based # query
             THEN <<where_based>> ELSE <<>>)
         \o (IF reordered_where # <<>> /\ reordered_where # query
             THEN <<reordered_where>> ELSE <<>>)
         \o limited(query), LAMBDA candidates :
        [rng |-> rng0, raised |-> FALSE, fallback |-> FALSE,
         candidates |-> candidates,
         ret |-> Prefix(simple_unique_candidates(candidates), lim)])))

(***************************************************************************)
(* cost_model.py                                                           *)
(***************************************************************************)

\* Costs are floats in the code; the model counts them in units of 1/Scale,
\* which holds every product the heuristic forms for the queries below.
Scale == 4000

\* What a cost source gives: a number, NaN, or None.
Num(v) == [kind |-> "num", v |-> v]

NaN == [kind |-> "nan", v |-> 0]

None == [kind |-> "none", v |-> 0]

\* x * (num / den)
Times(x, num, den) == (x * num) \div den

\* x * (num / den) ** n
RECURSIVE Scaled(_, _, _, _)
Scaled(x, num, den, n) ==
    IF n <= 0 THEN x ELSE Scaled(Times(x, num, den), num, den, n - 1)

\* The sum of Term(k) for k in lo..hi.
Total(lo, hi, Term(_)) ==
    LET RECURSIVE Sum(_, _)
        Sum(l, h) ==
            IF l > h THEN 0
            ELSE IF l = h THEN Term(l)
            ELSE Sum(l, (l + h) \div 2) + Sum(((l + h) \div 2) + 1, h)
    IN Sum(lo, hi)

\* len(query)
TextLen(q) == Total(1, Len(q), LAMBDA k : Len(q[k]))

\* table_costs
table_costs ==
    << [table |-> "employees", cost |-> 500], [table |-> "departments", cost |-> 10],
       [table |-> "salaries", cost |-> 1000], [table |-> "projects", cost |-> 50],
       [table |-> "patients", cost |-> 200],  [table |-> "doctors", cost |-> 50],
       [table |-> "visits", cost |-> 1000],   [table |-> "appointments", cost |-> 1000] >>

\* A float power base ** n raises OverflowError from these exponents on:
\* 2.0 ** 1024 and 1.5 ** 1751 are beyond the largest double.
SubqueryPowLimit == 1024

JoinPowLimit == 1751

\* agg_functions, and whether the text of a (lower-case) token holds one.
agg_functions == {"count(", "sum(", "avg(", "min(", "max("}

HasAgg(t, func) == <<t, func>> \in {<<"count(*)", "count(">>}

\* "in (" in query_lower: a token that ends in "in", a space, and a token
\* that starts with a parenthesis.
HasInParen(ql) ==
    \E k \in 1..(Len(ql) - 2) :
        ql[k] \in {"in", "join"} /\ ql[k + 1] = " " /\ ql[k + 2] \in {"(", "(1)"}

\* The factor of the WHERE clause, in tenths.
where_factor(ql) ==
    IF \/ \E k \in 1..Len(ql) : HasEquals(ql[k])
       \/ \E k \in 1..Len(ql) : ql[k] = "between"
       \/ HasInParen(ql)
    THEN 3
    ELSE IF \E k \in 1..Len(ql) : HasAngle(ql[k]) THEN 6
    ELSE 8

\* calculate_heuristic_cost(query): the value, or raised when a power
\* overflows.
calculate_heuristic_cost(query) ==
    With(Lower(query), LAMBDA query_lower :
    With(Cardinality({k \in 1..Len(query) : query_lower[k] = "join"}), LAMBDA num_joins :
    With(Cardinality({k \in 1..Len(query) : query_lower[k] = "select"}) - 1,
         LAMBDA subquery_count :
        LET scanned ==
                Scale * Total(1, Len(table_costs), LAMBDA t :
                            IF \E k \in 1..Len(query) : query_lower[k] = table_costs[t].table
                            THEN table_costs[t].cost ELSE 0)
            joined(x) == Scaled(x, 3, 2, num_joins)
            filtered(x) ==
                IF \E k \in 1..Len(query) : query_lower[k] = "where"
                THEN Times(x, where_factor(query_lower), 10) ELSE x
            aggregated(x) ==
                Scaled(x, 6, 5,
                       Cardinality({f \in agg_functions :
                                       \E k \in 1..Len(query) : HasAgg(query_lower[k], f)}))
            grouped(x) ==
                IF Contains(query_lower, <<"group", " ", "by">>) THEN Times(x, 3, 2) ELSE x
            ordered(x) ==
                IF Contains(query_lower, <<"order", " ", "by">>) THEN Times(x, 13, 10) ELSE x
            nested(x) == Scaled(x, 2, 1, subquery_count)
            complexity_bonus == Times(TextLen(query), Scale, 100)
        IN IF num_joins >= JoinPowLimit \/ subquery_count >= SubqueryPowLimit
           THEN [raised |-> TRUE, value |-> None]
           ELSE [raised |-> FALSE,
                 value |-> Num(Max({Scale,
                                    nested(ordered(grouped(aggregated(filtered(
                                        joined(scanned))))))
                                    + complexity_bonus}))])))

(***************************************************************************)
(* explain_runner.py, and the database behind it                           *)
(***************************************************************************)

\* A key the reply does not have.
Missing == [kind |-> "missing", v |-> 0]

\* The queries that costs are asked for: a constant, a join with a WHERE
\* clause, an aggregate, and a UNION long enough for the power of the
\* subquery penalty to overflow.
CostQuery(k) ==
    CASE k = 1 -> <<"SELECT", " ", "1">>
      [] k = 2 -> QueryOf([joins |-> 1, where |-> <<"like", "eq">>, tail |-> "none",
                           style |-> "plain", from |-> "employees"])
      [] k = 3 -> <<"SELECT", " ", "COUNT(*)", " ", "FROM", " ", "employees", " ", "e",
                    " ", "WHERE", " ", "e.salary>50000", " ", "GROUP", " ", "BY", " ",
                    "e.emp_id">>
      [] OTHER -> <<"SELECT", " ", "1">>
                  \o Gather(1, SubqueryPowLimit,
                            LAMBDA n : <<" ", "UNION", " ", "SELECT", " ", "1">>)

\* What the planner and the executor of a healthy database say of each query
\* (the total cost of SELECT 1 is 0.01), in units of 1/Scale.
PlannerCosts == <<Scale \div 100, 30 * Scale, 12 * Scale, 50 * Scale>>

ExecutionTimes == <<2 * Scale, 2 * Scale, Scale, 3 * Scale>>

\* The states of the database: unreachable; answering in full; answering
\* with a plan that has no run time; with a plan that has no total cost; with
\* a plan whose total cost is NaN.
DbStates == {"down", "analyze", "estimate", "no_cost", "nan_cost"}

\* run_explain(query) with the database in state d: None (up = FALSE) when
\* run_sql raises or returns nothing, else the first plan of the reply.
run_explain(d, query) ==
    [up |-> d # "down",
     plan |-> d # "down",
     total_cost |-> CASE d \in {"analyze", "estimate"} -> Num(PlannerCosts[query])
                      [] d = "nan_cost" -> NaN
                      [] OTHER -> Missing,
     actual_total_time |-> IF d = "analyze" THEN Num(ExecutionTimes[query]) ELSE Missing,
     execution_time |-> IF d = "analyze" THEN Num(ExecutionTimes[query]) ELSE Missing]

\* get_query_cost(query) of cost_model.py, run_explain having given reply:
\* the total cost of the plan unless it is missing or NaN, else the heuristic.
get_query_cost(reply, query) ==
    IF reply.up /\ reply.total_cost.kind = "num"
    THEN [raised |-> FALSE, value |-> reply.total_cost]
    ELSE calculate_heuristic_cost(CostQuery(query))

(***************************************************************************)
(* cost_comparator.py                                                      *)
(***************************************************************************)

\* What load_cost_model left in self.model: nothing, a model whose predict
\* raises, one that predicts NaN, one that predicts a number.
ModelKinds == {"absent", "raises", "nan", "predicts"}

\* What a working model predicts for each query.
Predictions == <<5 * Scale, 7 * Scale, 7 * Scale, 9 * Scale>>

\* get_explain_cost, run_explain having given reply: float(plan.get("Total
\* Cost", 0)).
get_explain_cost(reply) ==
    IF reply.up /\ reply.plan
    THEN (IF reply.total_cost.kind = "missing" THEN Num(0) ELSE reply.total_cost)
    ELSE None

\* get_explain_runtime, run_explain having given reply.
get_explain_runtime(reply) ==
    IF reply.up /\ reply.execution_time.kind # "missing" THEN reply.execution_time
    ELSE IF reply.up /\ reply.plan
    THEN (IF \/ reply.actual_total_time.kind = "missing"
             \/ reply.actual_total_time = Num(0)
          THEN None ELSE reply.actual_total_time)
    ELSE None

\* get_ml_prediction with self.model of kind m.
get_ml_prediction(m, query) ==
    IF m = "predicts" THEN Num(Predictions[query]) ELSE None

\* costs[key] = value
Put(costs, key, value) == (key :> value) @@ costs

\* if value is not None: costs[key] = value
PutIfGiven(costs, key, value) ==
    IF value = None THEN costs ELSE Put(costs, key, value)

\* The priority of get_best_cost_estimate turned round at its head.
best_of_estimate_first(costs) ==
    IF "db_estimate" \in DOMAIN costs THEN costs["db_estimate"]
    ELSE IF "actual_runtime" \in DOMAIN costs THEN costs["actual_runtime"]
    ELSE IF "ml_prediction" \in DOMAIN costs THEN costs["ml_prediction"]
    ELSE costs["heuristic"]

\* The choice of get_best_cost_estimate among the costs it collected.
best_of(costs) ==
    IF "actual_runtime" \in DOMAIN costs THEN costs["actual_runtime"]
    ELSE IF "db_estimate" \in DOMAIN costs THEN costs["db_estimate"]
    ELSE IF "ml_prediction" \in DOMAIN costs THEN costs["ml_prediction"]
    ELSE costs["heuristic"]

\* a < b on floats: false when either is NaN.
Less(a, b) == a.kind = "num" /\ b.kind = "num" /\ a.v < b.v

\* list.sort(key=Key) on a short list, as CPython sorts it: the run the list
\* starts with is found (and reversed if it descends strictly), and the rest
\* is inserted into it one by one by binary search.
list_sort(items, Key(_)) ==
    LET n == Len(items)
        lt(a, b) == Less(Key(a), Key(b))
        descending == n >= 2 /\ lt(items[2], items[1])
        run == IF n < 2 THEN n
               ELSE Max({j \in 2..n :
                           \A m \in 3..j : lt(items[m], items[m - 1]) = descending})
        first_run == IF descending THEN [k \in 1..run |-> items[run + 1 - k]]
                     ELSE SubSeq(items, 1, run)
        \* the number of elements of done that stay before pivot
        RECURSIVE Place(_, _, _, _)
        Place(done, pivot, l, r) ==
            IF l >= r THEN l
            ELSE With(l + ((r - l) \div 2), LAMBDA p :
                    IF lt(pivot, done[p + 1]) THEN Place(done, pivot, l, p)
                    ELSE Place(done, pivot, p + 1, r))
        RECURSIVE Insert(_, _)
        Insert(done, k) ==
            IF k > n THEN done
            ELSE With(Place(done, items[k], 0, Len(done)), LAMBDA at :
                    Insert(SubSeq(done, 1, at) \o <<items[k]>>
                           \o SubSeq(done, at + 1, Len(done)), k + 1))
    IN Insert(first_run, run + 1)

\* The results sorted and turned round: the most expensive first.
worst_first(results) ==
    reversed(list_sort(results, LAMBDA x : x.costs["best_estimate"]))

\* results.sort(key=lambda x: x[2]['best_estimate']), and sorted(scored,
\* key=lambda x: x[1]) of best_candidate_for_query.
sort_results(results) == list_sort(results, LAMBDA x : x.costs["best_estimate"])

\* The ranking loop of compare_queries divides by the best estimate when
\* another differs from it: ZeroDivisionError when the best is 0.
rank_raises(results) ==
    /\ results # <<>>
    /\ results[1].costs["best_estimate"] = Num(0)
    /\ \E k \in 2..Len(results) :
          \/ Less(results[1].costs["best_estimate"], results[k].costs["best_estimate"])
          \/ Less(results[k].costs["best_estimate"], results[1].costs["best_estimate"])

\* The names compare_queries gives its queries.
query_name(k) ==
    CASE k = 1 -> "original" [] k = 2 -> "candidate_1" [] k = 3 -> "candidate_2"
      [] k = 4 -> "candidate_3" [] OTHER -> "candidate_n"

(***************************************************************************)
(* join_optimizer.py                                                       *)
(***************************************************************************)

\* The names n for which the text of the token holds "n.": what
\* f"{a}." in cond and where_block.count(f"{a}.") look for.
DotRefs(t) ==
    CASE t \in {"e.emp_id", "e.dept_id", "e.salary", "e.name", "e.hired", "e.credit_limit",
                "e.salary>50000", "e.salary>=5", "e.emp_id=5"} -> {"e"}
      [] t = "e.dept_id=d.dept_id" -> {"e", "d"}
      [] t = "d.dept_id=p.dept_id" -> {"d", "p"}
      [] t = "e.emp_id=s.emp_id" -> {"e", "s"}
      [] t = "e.emp_id=v.emp_id" -> {"e", "v"}
      [] t = "v.doc_id=r.doc_id" -> {"v", "r"}
      [] t = "r.doc_id=a.doc_id" -> {"r", "a"}
      [] t = "d.dept_id=1" -> {"d"}
      [] OTHER -> {}

\* text.count(f"{name}.")
DotCount(text, name) == Cardinality({k \in 1..Len(text) : name \in DotRefs(text[k])})

\* d[key] = value on a dictionary kept as the list of its items, in the order
\* the keys were first put.
DictPut(d, key, value) ==
    IF \E k \in 1..Len(d) : d[k].key = key
    THEN [k \in 1..Len(d) |-> IF d[k].key = key THEN [key |-> key, value |-> value]
                              ELSE d[k]]
    ELSE Append(d, [key |-> key, value |-> value])

\* d.get(key, default)
DictGet(d, key, default) ==
    IF \E k \in 1..Len(d) : d[k].key = key
    THEN d[CHOOSE k \in 1..Len(d) : d[k].key = key].value
    ELSE default

\* JOIN\s+(\w+)(?:\s+(\w+))? with its JOIN at i: the table, the word after it
\* ("" for none) and the last position of the match, or end = 0.
JoinTableAt(q, i) ==
    With(SkipWs(q, i + 1), LAMBDA t :
    With(SkipWs(q, t + 1), LAMBDA a :
        IF ~KwAt(q, i, "join") \/ ~WsAt(q, i + 1) \/ t > Len(q) THEN
            [end |-> 0, table |-> "", alias |-> ""]
        ELSE IF WordHead(q[t]) = "" THEN [end |-> 0, table |-> "", alias |-> ""]
        ELSE IF IsWord(q[t]) /\ WsAt(q, t + 1) /\ a <= Len(q) /\ WordHead(q[a]) # ""
        THEN [end |-> a, table |-> q[t], alias |-> WordHead(q[a])]
        ELSE [end |-> t, table |-> WordHead(q[t]), alias |-> ""]))

\* _get_alias_map(query): alias_map, as the list of its items.
get_alias_map(query) ==
    LET from == from_match(query)
        first == IF FromAt(query) = 0 THEN <<>>
                 ELSE <<[key   |-> lower(IF from.alias # "" THEN from.alias
                                         ELSE from.table),
                         value |-> lower(from.table)]>>
        RECURSIVE Joins(_, _)
        Joins(d, i) ==
            With(FirstAt(i, Len(query), LAMBDA k : JoinTableAt(query, k).end # 0),
                 LAMBDA at :
                IF at = 0 THEN d
                ELSE With(JoinTableAt(query, at), LAMBDA m :
                        Joins(DictPut(d, lower(IF m.alias # "" THEN m.alias ELSE m.table),
                                      lower(m.table)),
                              m.end + 1)))
    IN Joins(first, 1)

\* What follows the ON condition of _get_join_conditions:
\* (?=(?:\s+JOIN|\s+WHERE|;|$)).
OnCondStop(q, n) ==
    \/ WsKwAt(q, n, "join") \/ WsKwAt(q, n, "where")
    \/ n <= Len(q) /\ q[n] = ";"
    \/ n = Len(q) + 1
    \/ n = Len(q) /\ q[n] = "\n"

\* One match of JOIN\s+(\w+)(?:\s+(\w+))?\s+ON\s+([^;]+?) and its lookahead,
\* the JOIN at i: alias, condition and last position, or end = 0.
OnMatchAt(q, i) ==
    With(SkipWs(q, i + 1), LAMBDA t :
    With(SkipWs(q, t + 1), LAMBDA a :
        LET none == [end |-> 0, alias |-> "", cond |-> <<>>]
            rest(o, alias) ==
                IF KwAt(q, o, "on") /\ WsAt(q, o + 1)
                THEN With(SkipWs(q, o + 1), LAMBDA c :
                     With(LazyEnd(q, c, TRUE, LAMBDA n : OnCondStop(q, n)), LAMBDA e :
                        IF e = 0 THEN none
                        ELSE [end |-> e, alias |-> lower(alias),
                              cond |-> strip(SubSeq(q, c, e))]))
                ELSE none
        IN IF ~KwAt(q, i, "join") \/ ~WsAt(q, i + 1) \/ t > Len(q) THEN none
           ELSE IF ~IsWord(q[t]) \/ ~WsAt(q, t + 1) \/ a > Len(q) THEN none
           ELSE With(IF IsWord(q[a]) /\ WsAt(q, a + 1)
                     THEN rest(SkipWs(q, a + 1), q[a]) ELSE none,
                     LAMBDA with_alias :
                        IF with_alias.end # 0 THEN with_alias ELSE rest(a, q[t]))))

\* _get_join_conditions(query): join_conds, as the list of its items.
get_join_conditions(query) ==
    LET RECURSIVE Conds(_, _)
        Conds(d, i) ==
            With(FirstAt(i, Len(query), LAMBDA k : OnMatchAt(query, k).end # 0),
                 LAMBDA at :
                IF at = 0 THEN d
                ELSE With(OnMatchAt(query, at), LAMBDA m :
                        Conds(DictPut(d, m.alias, m.cond), m.end + 1)))
    IN Conds(<<>>, 1)

\* What pg_class knows of the row counts: no connection; the counts of the
\* dummy data (no row for a table it does not know); counts that grow along
\* the joins; few projects; tables never analyzed.
RowStates == {"down", "dummy_data", "ascending", "few_projects", "unanalyzed"}

\* The row that SELECT reltuples::bigint FROM pg_class WHERE relname = table
\* fetches: found or not, and the count in it.
reltuples(rows, table) ==
    LET Row(n)  == [found |-> TRUE, value |-> n]
        NoRow   == [found |-> FALSE, value |-> 0]
    IN CASE rows = "dummy_data" ->
              (CASE table = "employees" -> Row(500) [] table = "departments" -> Row(10)
                 [] table = "projects" -> Row(50) [] OTHER -> NoRow)
         [] rows = "ascending" ->
              (CASE table = "employees" -> Row(10) [] table = "departments" -> Row(100)
                 [] OTHER -> NoRow)
         [] rows = "few_projects" ->
              (CASE table = "employees" -> Row(5) [] table = "departments" -> Row(100)
                 [] table = "projects" -> Row(10) [] OTHER -> NoRow)
         [] rows = "unanalyzed" ->
              (IF table \in {"employees", "departments", "projects", "salaries"}
               THEN Row(0) ELSE NoRow)
         [] OTHER -> NoRow

\* estimate_table_rows(conn, table_name): the count of the row fetched, 1000
\* when there is no row.
estimate_table_rows(rows, table) ==
    IF reltuples(rows, table).found THEN reltuples(rows, table).value ELSE 1000

\* size_by_alias[a] in optimize_join_order: est stays None without a
\* connection, and `est or 1000` takes 1000 for None and for 0.
table_size(rows, table) ==
    LET est == IF rows = "down" THEN 0 ELSE estimate_table_rows(rows, table)
    IN IF est = 0 THEN 1000 ELSE est

\* min(items, key=Key) and max(items, key=Key): the first of the items with
\* the least (greatest) key.
min_by(items, Key(_)) ==
    items[CHOOSE i \in 1..Len(items) :
            /\ \A j \in 1..Len(items) : Key(items[j]) >= Key(items[i])
            /\ \A j \in 1..(i - 1) : Key(items[j]) > Key(items[i])]

max_by(items, Key(_)) ==
    items[CHOOSE i \in 1..Len(items) :
            /\ \A j \in 1..Len(items) : Key(items[j]) <= Key(items[i])
            /\ \A j \in 1..(i - 1) : Key(items[j]) < Key(items[i])]

\* The items of a list that pass a test, in their order.
RECURSIVE Filter(_, _)
Filter(items, keep) ==
    IF items = <<>> THEN <<>>
    ELSE (IF Head(items) \in keep THEN <<Head(items)>> ELSE <<>>)
         \o Filter(Tail(items), keep)

\* where_block of optimize_join_order: group 1 of WHERE\s+(.+), the text from
\* the first WHERE to the end (<<>> when there is no match).
where_block(query) ==
    With(FirstAt(1, Len(query), LAMBDA i :
            KwAt(query, i, "where") /\ WsAt(query, i + 1) /\ i + 2 <= Len(query)),
         LAMBDA at :
            IF at = 0 THEN <<>>
            ELSE With(SkipWs(query, at + 1), LAMBDA s :
                    SubSeq(query, IF s <= Len(query) THEN s ELSE Len(query), Len(query))))

\* The seed of optimize_join_order: the alias the WHERE block names most often
\* if it names any, else the alias of the smallest table.
seed_alias(query, aliases, size_by_alias) ==
    With(Lower(where_block(query)), LAMBDA block :
    With(IF block # <<>> /\ \E k \in 1..Len(aliases) : DotCount(block, aliases[k]) > 0
         THEN max_by(aliases, LAMBDA a : DotCount(block, a)) ELSE "",
         LAMBDA preferred_alias :
        IF preferred_alias # "" /\ DotCount(block, preferred_alias) > 0
        THEN preferred_alias
        ELSE min_by(aliases, LAMBDA a : DictGet(size_by_alias, a, 1000000000))))

\* next_alias of one round of the greedy loop.
next_alias(order, remaining, alias_map, join_conds, size_by_alias) ==
    LET connected(r) ==
            \E k \in 1..Len(order) :
               \E n \in {order[k], DictGet(alias_map, order[k], "")} :
                  DotCount(DictGet(join_conds, r, <<>>), n) > 0
        candidates == Filter(remaining, {remaining[k] : k \in {j \in 1..Len(remaining) : connected(remaining[j])}})
    IN min_by(IF candidates = <<>> THEN remaining ELSE candidates,
              LAMBDA a : DictGet(size_by_alias, a, 1000))

\* re.sub(r"FROM\s+(.+?)(?=(\bWHERE\b|$))", block, query): every match, left
\* to right, gives way to the block.
sub_from_block(query, block) ==
    LET stop(n) == \/ KwAt(query, n, "where")
                   \/ n = Len(query) + 1
                   \/ n = Len(query) /\ query[n] = "\n"
        last(i) == IF KwAt(query, i, "from") /\ WsAt(query, i + 1)
                   THEN LazyEnd(query, i + 2, FALSE, stop) ELSE 0
        RECURSIVE From(_)
        From(i) ==
            With(FirstAt(i, Len(query), LAMBDA k : last(k) # 0), LAMBDA at :
                IF at = 0 THEN SubSeq(query, i, Len(query))
                ELSE SubSeq(query, i, at - 1) \o block \o From(last(at) + 1))
    IN From(1)

\* The rebuild without its bail-out: an alias without table or ON condition
\* is written with an empty one.
reorder_without_bail_out(query, alias_order) ==
    With(get_alias_map(query), LAMBDA alias_map :
    With(get_join_conditions(query), LAMBDA join_conds :
        IF alias_order = <<>> \/ alias_map = <<>> THEN [raised |-> FALSE, out |-> query]
        ELSE IF DictGet(alias_map, alias_order[1], "") = ""
        THEN [raised |-> TRUE, out |-> <<>>]
        ELSE [raised |-> FALSE,
              out |-> sub_from_block(query,
                        <<"FROM", " ", DictGet(alias_map, alias_order[1], ""), " ",
                          alias_order[1], "\n">>
                        \o join(<<"\n">>,
                                [k \in 1..(Len(alias_order) - 1) |->
                                    <<"JOIN", " ",
                                      DictGet(alias_map, alias_order[k + 1], ""), " ",
                                      alias_order[k + 1], " ", "ON", " ">>
                                    \o DictGet(join_conds, alias_order[k + 1], <<>>)])
                        \o <<"\n">>)]))

\* reorder_query_by_alias_order(query, alias_order)
reorder_query_by_alias_order(query, alias_order) ==
    With(get_alias_map(query), LAMBDA alias_map :
    With(get_join_conditions(query), LAMBDA join_conds :
        IF alias_order = <<>> \/ alias_map = <<>> THEN [raised |-> FALSE, out |-> query]
        ELSE IF DictGet(alias_map, alias_order[1], "") = ""
        THEN [raised |-> TRUE, out |-> <<>>]
        ELSE IF \E k \in 2..Len(alias_order) :
                   \/ DictGet(alias_map, alias_order[k], "") = ""
                   \/ DictGet(join_conds, alias_order[k], <<>>) = <<>>
        THEN [raised |-> FALSE, out |-> query]
        ELSE [raised |-> FALSE,
              out |-> sub_from_block(query,
                        <<"FROM", " ", DictGet(alias_map, alias_order[1], ""), " ",
                          alias_order[1], "\n">>
                        \o join(<<"\n">>,
                                [k \in 1..(Len(alias_order) - 1) |->
                                    <<"JOIN", " ",
                                      DictGet(alias_map, alias_order[k + 1], ""), " ",
                                      alias_order[k + 1], " ", "ON", " ">>
                                    \o DictGet(join_conds, alias_order[k + 1], <<>>)])
                        \o <<"\n">>)]))

(***************************************************************************)
(* State: a caller asks one generator for candidates, twice, with the same *)
(* arguments; a CostComparator compares an original query with candidates. *)
(***************************************************************************)

VARIABLES
    request,     \* the generator asked and the arguments of the call
    rng,         \* the state of the generator of the `random` module
    calls,       \* the number of calls made
    result,      \* what the last call gave
    first,       \* what the first call gave
    seen,        \* the state of the generator at the start of each call
    model,       \* what the comparator loaded as its model
    db,          \* the state of the database
    changes,     \* how often the database has changed its state
    queries,     \* all_queries of compare_queries: the original, then the candidates
    current,     \* the index of the query compare_queries is at
    round,       \* which call of get_comprehensive_cost runs, or "rank"
    pc,          \* the next step of the comparator
    costs,       \* the dictionary that get_comprehensive_cost fills
    kept,        \* the dictionary compare_queries holds for the current query
    results,     \* the list compare_queries builds
    reply,       \* what run_explain gave last
    raised,      \* the exception that left the comparator, or "none"
    chosen,      \* best_query and best_cost of main and of best_candidate_for_query
    executed,    \* the callers of run_explain whose query the database has run
    jo,          \* the locals of optimize_join_order, and what the rebuild gave
    run          \* the database calls of compare_queries or run_benchmark

gen_vars == <<request, rng, calls, result, first, seen>>

cost_vars ==
    <<model, db, changes, queries, current, round, pc, costs, kept, results, reply,
      raised, chosen, executed>>

join_vars == <<jo>>

run_vars == <<run>>

vars == <<gen_vars, cost_vars, join_vars, run_vars>>

(***************************************************************************)
(* The generation machine                                                  *)
(***************************************************************************)

\* The number of calls a run makes.
MaxCalls == 2

Generators == {"optimizer", "ml_optimizer", "simple"}

\* The calls a caller can make: generate_simple_candidates has no
\* deterministic argument.
Requests ==
    { [generator |-> g, query |-> QueryOf(sh), limit |-> l, deterministic |-> d] :
        g \in Generators, sh \in Shapes, l \in (-1)..MaxLimit, d \in BOOLEAN }
    \ { r \in [generator : {"simple"}, query : {QueryOf(sh) : sh \in Shapes},
               limit : (-1)..MaxLimit, deterministic : {TRUE}] : TRUE }

NoRequest == [generator |-> "none", query |-> <<>>, limit |-> 0, deterministic |-> FALSE]

NoResult ==
    [rng |-> 0, raised |-> FALSE, fallback |-> FALSE, candidates |-> <<>>, ret |-> <<>>]

\* No reply of run_explain yet.
NoReply ==
    [up |-> FALSE, plan |-> FALSE, total_cost |-> Missing,
     actual_total_time |-> Missing, execution_time |-> Missing]

\* No generator is asked.
GenIdle ==
    /\ request = NoRequest
    /\ rng = 0
    /\ calls = 0
    /\ result = NoResult
    /\ first = NoResult
    /\ seen = <<>>

\* No query is recommended yet.
NoBest == [query |-> 0, cost |-> None]

\* No comparison is under way.
CostIdle ==
    /\ model = "absent"
    /\ db = "down"
    /\ changes = 0
    /\ queries = <<>>
    /\ current = 0
    /\ round = "none"
    /\ pc = "idle"
    /\ costs = <<>>
    /\ kept = <<>>
    /\ results = <<>>
    /\ reply = NoReply
    /\ raised = "none"
    /\ chosen = NoBest
    /\ executed = {}

\* No join order is asked for.
NoJoinOrder ==
    [pc |-> "idle", query |-> <<>>, max_steps |-> 0, rows |-> "down",
     alias_map |-> <<>>, join_conds |-> <<>>, size_by_alias |-> <<>>,
     order |-> <<>>, remaining |-> <<>>, steps |-> 0, ret |-> <<>>,
     alias_order |-> <<>>, raised |-> FALSE, out |-> <<>>]

JoinIdle == jo = NoJoinOrder

\* No driver runs.
NoRun ==
    [driver |-> "none", mode |-> "explain", model |-> "absent", n |-> 0,
     workload |-> 0, at |-> 0, best |-> 0, pc |-> "idle", program |-> <<>>,
     next |-> 1, issued |-> <<>>, in_flight |-> {}]

RunIdle == run = NoRun

\* The module-level generator of `random` starts in a state nobody chose.
GenInit ==
    /\ request \in Requests
    /\ rng \in 0..(RngStates - 1)
    /\ calls = 0
    /\ result = NoResult
    /\ first = NoResult
    /\ seen = <<>>
    /\ CostIdle
    /\ JoinIdle
    /\ RunIdle

\* One call of the generator: r is what it gives with the generator as it is.
Called(r) ==
    /\ calls' = calls + 1
    /\ result' = r
    /\ first' = IF calls = 0 THEN r ELSE first
    /\ rng' = r.rng
    /\ seen' = Append(seen, rng)
    /\ UNCHANGED request
    /\ UNCHANGED <<cost_vars, join_vars, run_vars>>

GenerateCandidates ==
    /\ request.generator = "optimizer"
    /\ calls < MaxCalls
    /\ Called(generate_candidates(request.query, request.limit,
                                  request.deterministic, rng))

MlGenerateCandidates ==
    /\ request.generator = "ml_optimizer"
    /\ calls < MaxCalls
    /\ Called(ml_generate_candidates(request.query, request.limit,
                                     request.deterministic, rng))

GenerateSimpleCandidates ==
    /\ request.generator = "simple"
    /\ calls < MaxCalls
    /\ Called(generate_simple_candidates(request.query, request.limit, rng))

\* Other code of the process draws from the same module-level generator
\* between the calls.
RandomDraw ==
    /\ request.generator # "none"
    /\ calls < MaxCalls
    /\ rng' = RngStep(rng)
    /\ UNCHANGED <<request, calls, result, first, seen>>
    /\ UNCHANGED <<cost_vars, join_vars, run_vars>>

Next ==
    \/ GenerateCandidates
    \/ MlGenerateCandidates
    \/ GenerateSimpleCandidates
    \/ RandomDraw

Init == GenInit

Spec == Init /\ [][Next]_vars

(***************************************************************************)
(* The comparison machine: compare_queries, step by step, while the        *)
(* database changes its state.                                             *)
(***************************************************************************)

\* The number of candidates compare_queries is given, and the number of times
\* the database changes its state during one comparison.
MaxCandidates == 2

MaxDbChanges == 1

\* The lists of queries compared: an original, and candidates that differ
\* from it and from each other, in the order their generator listed them.
CostLists ==
    { qs \in UNION { [1..n -> 1..Len(PlannerCosts)] : n \in 1..(MaxCandidates + 1) } :
        /\ \A j, k \in 1..Len(qs) : j # k => qs[j] # qs[k]
        /\ \A j, k \in 2..Len(qs) : j < k => qs[j] < qs[k] }

\* CostComparator() has loaded its model, and compare_queries has named its
\* queries and is about to cost the original; or best_candidate_for_query is
\* about to score the first of its candidates; or main, given no candidate,
\* asks get_best_cost_estimate for the cost of the original.
CostInit ==
    /\ GenIdle
    /\ JoinIdle
    /\ RunIdle
    /\ model \in ModelKinds
    /\ db \in DbStates
    /\ changes = 0
    /\ queries \in CostLists
    /\ current = 1
    /\ \/ round = "comprehensive" /\ pc = "explain_cost"
       \/ round = "benchmark" /\ pc = "score"
       \/ round = "main_best" /\ pc = "explain_cost" /\ Len(queries) = 1
    /\ costs = <<>>
    /\ kept = <<>>
    /\ results = <<>>
    /\ reply = NoReply
    /\ raised = "none"
    /\ chosen = NoBest
    /\ executed = {}

\* explain_cost = self.get_explain_cost(query), into a new dictionary.
GetExplainCost ==
    /\ pc = "explain_cost"
    /\ reply' = run_explain(db, queries[current])
    /\ costs' = PutIfGiven(<<>>, "db_estimate", get_explain_cost(reply'))
    /\ pc' = "explain_runtime"
    /\ UNCHANGED <<model, db, changes, queries, current, round, kept, results, raised>>
    /\ executed' = IF reply'.up THEN executed \cup {"get_explain_cost"} ELSE executed
    /\ UNCHANGED <<chosen, gen_vars, join_vars, run_vars>>

\* runtime = self.get_explain_runtime(query)
GetExplainRuntime ==
    /\ pc = "explain_runtime"
    /\ reply' = run_explain(db, queries[current])
    /\ costs' = PutIfGiven(costs, "actual_runtime", get_explain_runtime(reply'))
    /\ pc' = "ml_prediction"
    /\ UNCHANGED <<model, db, changes, queries, current, round, kept, results, raised>>
    /\ executed' = IF reply'.up THEN executed \cup {"get_explain_runtime"} ELSE executed
    /\ UNCHANGED <<chosen, gen_vars, join_vars, run_vars>>

\* ml_cost = self.get_ml_prediction(query)
GetMlPrediction ==
    /\ pc = "ml_prediction"
    /\ costs' = PutIfGiven(costs, "ml_prediction", get_ml_prediction(model, queries[current]))
    /\ pc' = "heuristic"
    /\ UNCHANGED <<model, db, changes, queries, current, round, kept, results, reply,
                   raised>>
    /\ UNCHANGED <<chosen, executed, gen_vars, join_vars, run_vars>>

\* costs['heuristic'] = self.get_heuristic_cost(query): no handler stands
\* between an exception of the heuristic and the caller of compare_queries.
GetHeuristicCost ==
    /\ pc = "heuristic"
    /\ reply' = run_explain(db, queries[current])
    /\ LET cost == get_query_cost(reply', queries[current])
       IN IF cost.raised
          THEN /\ raised' = "OverflowError"
               /\ pc' = "raised"
               /\ UNCHANGED costs
          ELSE /\ costs' = Put(costs, "heuristic", cost.value)
               /\ pc' = "return"
               /\ UNCHANGED raised
    /\ UNCHANGED <<model, db, changes, queries, current, round, kept, results>>
    /\ executed' = IF reply'.up THEN executed \cup {"get_query_cost"} ELSE executed
    /\ UNCHANGED <<chosen, gen_vars, join_vars, run_vars>>

\* get_comprehensive_cost returns to compare_queries, which calls
\* get_best_cost_estimate, which calls get_comprehensive_cost.
GetComprehensiveCost ==
    /\ pc = "return"
    /\ round = "comprehensive"
    /\ kept' = costs
    /\ round' = "best"
    /\ pc' = "explain_cost"
    /\ UNCHANGED <<model, db, changes, queries, current, costs, results, reply, raised>>
    /\ UNCHANGED <<chosen, executed, gen_vars, join_vars, run_vars>>

\* get_comprehensive_cost returns to get_best_cost_estimate, which makes its
\* choice; compare_queries stores it and appends the result.
GetBestCostEstimate ==
    /\ pc = "return"
    /\ round = "best"
    /\ results' = Append(results,
                         [name |-> query_name(current), query |-> queries[current],
                          costs |-> Put(kept, "best_estimate", best_of(costs))])
    /\ IF current < Len(queries)
       THEN /\ current' = current + 1
            /\ round' = "comprehensive"
            /\ pc' = "explain_cost"
       ELSE /\ round' = "rank"
            /\ pc' = "sort"
            /\ UNCHANGED current
    /\ UNCHANGED <<model, db, changes, queries, costs, kept, reply, raised>>
    /\ UNCHANGED <<chosen, executed, gen_vars, join_vars, run_vars>>

\* results.sort(...)
SortResults ==
    /\ pc = "sort"
    /\ results' = sort_results(results)
    /\ pc' = "rank"
    /\ UNCHANGED <<model, db, changes, queries, current, round, costs, kept, reply, raised>>
    /\ UNCHANGED <<chosen, executed, gen_vars, join_vars, run_vars>>

\* The ranking loop, and return results.
RankResults ==
    /\ pc = "rank"
    /\ IF rank_raises(results)
       THEN raised' = "ZeroDivisionError" /\ pc' = "raised"
       ELSE pc' = "done" /\ UNCHANGED raised
    /\ UNCHANGED <<model, db, changes, queries, current, round, costs, kept, results,
                   reply>>
    /\ UNCHANGED <<chosen, executed, gen_vars, join_vars, run_vars>>

\* main, after compare_queries: the first result is the best query when the
\* cost of the original is not zero and the best cost is below it, else the
\* original is.
Main ==
    /\ pc = "done"
    /\ Len(queries) > 1
    /\ LET best_query == results[1].query
           best_cost == results[1].costs["best_estimate"]
           original_cost ==
               results[CHOOSE k \in 1..Len(results) : results[k].name = "original"]
                   .costs["best_estimate"]
       IN chosen' = [query |-> IF original_cost # Num(0) /\ Less(best_cost, original_cost)
                             THEN best_query ELSE queries[1],
                   cost |-> best_cost]
    /\ pc' = "recommended"
    /\ UNCHANGED <<model, db, changes, queries, current, round, costs, kept, results,
                   reply, raised, executed>>
    /\ UNCHANGED <<gen_vars, join_vars, run_vars>>

\* main, given no candidate: the original, at the cost get_best_cost_estimate
\* gives for it.
MainNoCandidates ==
    /\ pc = "return"
    /\ round = "main_best"
    /\ chosen' = [query |-> queries[1], cost |-> best_of(costs)]
    /\ pc' = "recommended"
    /\ UNCHANGED <<model, db, changes, queries, current, round, costs, kept, results,
                   reply, raised, executed>>
    /\ UNCHANGED <<gen_vars, join_vars, run_vars>>

\* best_candidate_for_query scores one candidate: the prediction of the model
\* if there is one and predict does not raise, else get_query_cost.
ScoreCandidate ==
    /\ pc = "score"
    /\ LET predicted == model \in {"nan", "predicts"}
           cost == get_query_cost(run_explain(db, queries[current]), queries[current])
           pred == IF model = "predicts" THEN Num(Predictions[queries[current]])
                   ELSE IF model = "nan" THEN NaN ELSE cost.value
       IN /\ reply' = IF predicted THEN reply ELSE run_explain(db, queries[current])
          /\ executed' = IF ~predicted /\ reply'.up
                         THEN executed \cup {"get_query_cost"} ELSE executed
          /\ IF ~predicted /\ cost.raised
             THEN /\ raised' = "OverflowError"
                  /\ pc' = "raised"
                  /\ UNCHANGED <<results, current>>
             ELSE /\ results' = Append(results,
                                       [name |-> query_name(current),
                                        query |-> queries[current],
                                        costs |-> Put(<<>>, "best_estimate", pred)])
                  /\ IF current < Len(queries)
                     THEN current' = current + 1 /\ UNCHANGED pc
                     ELSE pc' = "pick" /\ UNCHANGED current
                  /\ UNCHANGED raised
    /\ UNCHANGED <<model, db, changes, queries, round, costs, kept, chosen>>
    /\ UNCHANGED <<gen_vars, join_vars, run_vars>>

\* best_q, best_cost = sorted(scored, key=lambda x: x[1])[0]
BestCandidateForQuery ==
    /\ pc = "pick"
    /\ results' = sort_results(results)
    /\ chosen' = [query |-> results'[1].query, cost |-> results'[1].costs["best_estimate"]]
    /\ pc' = "picked"
    /\ UNCHANGED <<model, db, changes, queries, current, round, costs, kept, reply,
                   raised, executed>>
    /\ UNCHANGED <<gen_vars, join_vars, run_vars>>

\* The database goes down, comes up, or answers differently.
DbChange ==
    /\ pc \notin {"idle", "done", "raised", "picked", "recommended"}
    /\ changes < MaxDbChanges
    /\ changes' = changes + 1
    /\ db' \in DbStates \ {db}
    /\ UNCHANGED <<model, queries, current, round, pc, costs, kept, results, reply, raised>>
    /\ UNCHANGED <<chosen, executed, gen_vars, join_vars, run_vars>>

CostNext ==
    \/ GetExplainCost
    \/ GetExplainRuntime
    \/ GetMlPrediction
    \/ GetHeuristicCost
    \/ GetComprehensiveCost
    \/ GetBestCostEstimate
    \/ SortResults
    \/ RankResults
    \/ Main
    \/ MainNoCandidates
    \/ ScoreCandidate
    \/ BestCandidateForQuery
    \/ DbChange

CostSpec == CostInit /\ [][CostNext]_vars

(***************************************************************************)
(* The join-order machine: optimize_join_order, one round of its loop at a *)
(* time, then reorder_query_by_alias_order.                                *)
(***************************************************************************)

\* The joins of the queries whose order is asked for, and the greatest
\* max_steps a caller passes.
MaxOrderJoins == 3

MaxSteps == 3

\* The queries whose join order is asked for.
JoinShapes ==
    { [joins |-> j, where |-> w, tail |-> t, style |-> st, from |-> f] :
        j \in 0..MaxOrderJoins,
        w \in {<<>>, <<"gt">>, <<"deq">>, <<"deq", "gt">>, <<"deq", "deq", "gt">>},
        t \in {"none", "order"},
        st \in {"plain", "lines"},
        f \in {"employees", "bare"} }

JoinInit ==
    /\ GenIdle
    /\ CostIdle
    /\ RunIdle
    /\ \E sh \in JoinShapes, m \in 0..MaxSteps, r \in RowStates :
          jo = [NoJoinOrder EXCEPT !.pc = "start", !.query = QueryOf(sh),
                                   !.max_steps = m, !.rows = r]

\* optimize_join_order up to its loop: the maps, the sizes, the seed.
SeedOrder ==
    /\ jo.pc = "start"
    /\ LET alias_map == get_alias_map(jo.query)
           aliases   == [k \in 1..Len(alias_map) |-> alias_map[k].key]
           RECURSIVE sizes(_)
           sizes(k) ==
               IF k = 0 THEN <<>>
               ELSE DictPut(sizes(k - 1), aliases[k],
                            table_size(jo.rows, alias_map[k].value))
           seed0 == seed_alias(jo.query, aliases, sizes(Len(aliases)))
       IN IF alias_map = <<>>
          THEN jo' = [jo EXCEPT !.pc = "returned"]
          ELSE jo' = [jo EXCEPT !.pc = "loop",
                                !.alias_map = alias_map,
                                !.join_conds = get_join_conditions(jo.query),
                                !.size_by_alias = sizes(Len(aliases)),
                                !.order = <<seed0>>,
                                !.remaining = Filter(aliases, {aliases[k] : k \in 1..Len(aliases)} \ {seed0})]
    /\ UNCHANGED <<gen_vars, cost_vars, run_vars>>

\* One round of `while remaining and steps < max_steps`.
GreedyStep ==
    /\ jo.pc = "loop"
    /\ jo.remaining # <<>>
    /\ jo.steps < jo.max_steps
    /\ LET n == next_alias(jo.order, jo.remaining, jo.alias_map, jo.join_conds,
                           jo.size_by_alias)
           at == CHOOSE i \in 1..Len(jo.remaining) :
                    /\ jo.remaining[i] = n
                    /\ \A j \in 1..(i - 1) : jo.remaining[j] # n
       IN jo' = [jo EXCEPT !.steps = jo.steps + 1,
                           !.order = Append(jo.order, n),
                           !.remaining = SubSeq(jo.remaining, 1, at - 1)
                                         \o SubSeq(jo.remaining, at + 1, Len(jo.remaining))]
    /\ UNCHANGED <<gen_vars, cost_vars, run_vars>>

\* The loop is left: what remains is appended, and the order returned.
ReturnOrder ==
    /\ jo.pc = "loop"
    /\ ~(jo.remaining # <<>> /\ jo.steps < jo.max_steps)
    /\ jo' = [jo EXCEPT !.pc = "returned",
                        !.ret = jo.order
                                \o Filter(jo.remaining,
                                          {jo.remaining[k] : k \in 1..Len(jo.remaining)}
                                          \ {jo.order[k] : k \in 1..Len(jo.order)})]
    /\ UNCHANGED <<gen_vars, cost_vars, run_vars>>

\* reorder_query_by_alias_order(query, alias_order), for the order returned
\* or any other order of the aliases.
ReorderQueryByAliasOrder ==
    /\ jo.pc = "returned"
    /\ \E alias_order \in {jo.ret} \cup
                          {p \in [1..Len(jo.ret) -> {jo.ret[k] : k \in 1..Len(jo.ret)}] :
                              \A i, j \in 1..Len(jo.ret) : i # j => p[i] # p[j]} :
          LET r == reorder_query_by_alias_order(jo.query, alias_order)
          IN jo' = [jo EXCEPT !.pc = "rebuilt", !.alias_order = alias_order,
                              !.raised = r.raised, !.out = r.out]
    /\ UNCHANGED <<gen_vars, cost_vars, run_vars>>

JoinNext ==
    \/ SeedOrder
    \/ GreedyStep
    \/ ReturnOrder
    \/ ReorderQueryByAliasOrder

JoinSpec == JoinInit /\ [][JoinNext]_vars

(***************************************************************************)
(* The database calls of the drivers: compare_queries, and run_benchmark   *)
(* with best_candidate_for_query.  A call is issued, the database works on *)
(* the query, the call returns.                                            *)
(***************************************************************************)

\* The queries compare_queries is given and the candidates that
\* best_candidate_for_query scores (the original is the first), and the
\* queries of the workload of run_benchmark.
MaxCompared == 3

MaxWorkload == 2

\* One call: the query it sends (the query of the workload and the candidate
\* of it) and the function that makes it.
DbCall(w, c, via) == [query |-> <<w, c>>, via |-> via]

\* The calls compare_queries makes for n queries: for each query the walk of
\* get_comprehensive_cost, then that of get_best_cost_estimate.
compare_queries_calls(n) ==
    Flatten([i \in 1..n |->
        LET walk == <<DbCall(1, i, "get_explain_cost"),
                      DbCall(1, i, "get_explain_runtime"),
                      DbCall(1, i, "get_query_cost")>>
        IN walk \o walk])

\* The calls best_candidate_for_query makes for the n candidates of query w:
\* get_query_cost where there is no model or its predict raises.
scoring_calls(w, n, m) ==
    IF m \in {"absent", "raises"}
    THEN [c \in 1..n |-> DbCall(w, c, "get_query_cost")]
    ELSE <<>>

\* The calls run_benchmark makes for query w once the best candidate is
\* picked: the two plans, the two measurements in mode "analyze", and
\* get_query_cost for a prediction that is NaN or raises.
run_benchmark_calls(w, best, mode, m) ==
    <<DbCall(w, 1, "run_explain"), DbCall(w, best, "run_explain")>>
    \o (IF mode = "analyze"
        THEN <<DbCall(w, 1, "run_explain_analyze_safe"),
               DbCall(w, best, "run_explain_analyze_safe")>>
        ELSE <<>>)
    \o (IF m \in {"nan", "raises"} THEN <<DbCall(w, 1, "get_query_cost")>> ELSE <<>>)

\* A driver that would not wait for the answer of a call.
CallPending(r) == TRUE

\* run_sql and cur.execute return when the database has answered: the
\* statement after a call runs when no call is under way.
CallReturned(r) == r.in_flight = {}

RunInit ==
    /\ GenIdle
    /\ CostIdle
    /\ JoinIdle
    /\ \E n \in 1..MaxCompared, m \in ModelKinds :
          \/ run = [NoRun EXCEPT !.driver = "compare_queries", !.model = m, !.n = n,
                                 !.workload = 1, !.at = 1, !.pc = "compare",
                                 !.program = compare_queries_calls(n)]
          \/ \E mode \in {"explain", "analyze"}, w \in 1..MaxWorkload :
                run = [NoRun EXCEPT !.driver = "run_benchmark", !.mode = mode,
                                    !.model = m, !.n = n, !.workload = w, !.at = 1,
                                    !.pc = "score",
                                    !.program = scoring_calls(1, n, m)]

\* The next call of the program is issued.
IssueCall ==
    /\ run.pc \in {"compare", "score", "measure"}
    /\ run.next <= Len(run.program)
    /\ CallReturned(run)
    /\ run' = [run EXCEPT !.next = run.next + 1,
                          !.issued = Append(run.issued, run.program[run.next].query),
                          !.in_flight = run.in_flight \cup {run.program[run.next].query}]
    /\ UNCHANGED <<gen_vars, cost_vars, join_vars>>

\* The database answers a call.
AnswerCall ==
    /\ \E q \in run.in_flight : run' = [run EXCEPT !.in_flight = run.in_flight \ {q}]
    /\ UNCHANGED <<gen_vars, cost_vars, join_vars>>

\* best_candidate_for_query returns the candidate with the least score; the
\* scores are what the model and the database gave.
PickBestCandidate ==
    /\ run.pc = "score"
    /\ run.next > Len(run.program)
    /\ CallReturned(run)
    /\ \E b \in 1..run.n :
          run' = [run EXCEPT !.best = b, !.pc = "measure", !.next = 1,
                             !.program = run_benchmark_calls(run.at, b, run.mode, run.model)]
    /\ UNCHANGED <<gen_vars, cost_vars, join_vars>>

\* The loop of run_benchmark goes to the next query of the workload.
NextBenchmarkQuery ==
    /\ run.pc = "measure"
    /\ run.next > Len(run.program)
    /\ CallReturned(run)
    /\ run.at < run.workload
    /\ run' = [run EXCEPT !.at = run.at + 1, !.best = 0, !.pc = "score", !.next = 1,
                          !.program = scoring_calls(run.at + 1, run.n, run.model)]
    /\ UNCHANGED <<gen_vars, cost_vars, join_vars>>

\* The driver returns its results.
ReturnResults ==
    /\ run.pc \in {"compare", "measure"}
    /\ run.next > Len(run.program)
    /\ CallReturned(run)
    /\ run.at = run.workload
    /\ run' = [run EXCEPT !.pc = "done"]
    /\ UNCHANGED <<gen_vars, cost_vars, join_vars>>

RunNext ==
    \/ IssueCall
    \/ AnswerCall
    \/ PickBestCandidate
    \/ NextBenchmarkQuery
    \/ ReturnResults

RunSpec == RunInit /\ [][RunNext]_vars

(***************************************************************************)
(* The candidate lists                                                     *)
(***************************************************************************)

\* The SQL text of an element of a list: generate_simple_candidates returns
\* the texts themselves, the two other generators (tag, text) pairs.
SqlOf(c) == IF request.generator = "simple" THEN c ELSE c.sql

\* A call has come back with a list.
Returned == calls >= 1 /\ ~result.raised

\* C1: for limit >= 1 and either value of deterministic, the list returned by
\* generate_candidates (optimizer and ml_optimizer) and by
\* generate_simple_candidates has the unmodified input query as its first
\* element, tagged "original" where there are tags, and no other element
\* carries the tag "original".
C1_OriginalFirst ==
    (calls >= 1 /\ request.limit >= 1) =>
        /\ ~result.raised
        /\ result.ret # <<>>
        /\ SqlOf(result.ret[1]) = request.query
        /\ request.generator # "simple" =>
              /\ result.ret[1].strategy = "original"
              /\ \A k \in 2..Len(result.ret) : result.ret[k].strategy # "original"

\* A non-deterministic call of ml_optimizer, whose list was shuffled, came back
\* with several candidates.
C1_Witness ==
    /\ request.generator = "ml_optimizer"
    /\ ~request.deterministic
    /\ request.limit >= 1
    /\ calls >= 1
    /\ seen[calls] # 0
    /\ Len(result.ret) >= 3

\* C2: for limit >= 1 the list returned has at most limit elements, the path
\* through the except branch of the optimizer included.
C2_AtMostLimit ==
    (calls >= 1 /\ request.limit >= 1) =>
        ~result.raised /\ Len(result.ret) <= request.limit

\* More candidates were built than the limit lets through.
C2_Witness ==
    /\ calls >= 1
    /\ request.limit >= 1
    /\ Len(result.candidates) > request.limit
    /\ Len(result.ret) = request.limit

\* C3: the generators never return an empty list, whatever the query and the
\* integer given as limit; the worst case is the single original candidate.
C3_NeverEmpty ==
    calls >= 1 => (~result.raised /\ result.ret # <<>>)

\* C4: no two elements of the list of generate_candidates (optimizer) or of
\* generate_simple_candidates have the same SQL once whitespace is collapsed,
\* and each element is the first candidate produced with that collapsed text,
\* under the tag of its producer; the input queries include candidates of an
\* earlier generation (a hint after SELECT, a hint after the table).
C4_NoDuplicates ==
    (Returned /\ request.generator \in {"optimizer", "simple"}) =>
        /\ \A k, m \in 1..Len(result.ret) :
              k # m => CollapseWs(strip(SqlOf(result.ret[k])))
                       # CollapseWs(strip(SqlOf(result.ret[m])))
        /\ \A k \in 1..Len(result.ret) :
              \E m \in 1..Len(result.candidates) :
                 /\ result.candidates[m] = result.ret[k]
                 /\ \A n \in 1..(m - 1) :
                       CollapseWs(strip(SqlOf(result.candidates[n])))
                       # CollapseWs(strip(SqlOf(result.ret[k])))

\* The optimizer dropped a candidate that differs from the original in
\* whitespace only, and kept others.
C4_Witness ==
    /\ Returned
    /\ request.generator = "optimizer"
    /\ Len(result.ret) >= 2
    /\ \E m \in 1..Len(result.candidates) :
          /\ result.candidates[m].sql # request.query
          /\ CollapseWs(strip(result.candidates[m].sql))
             = CollapseWs(strip(request.query))

\* C5: two calls with the same query and limit and deterministic = True
\* return identical lists, whatever the state of the random generator before
\* each call and whatever the number of joins (optimizer and ml_optimizer).
C5_Deterministic ==
    (request.deterministic /\ calls = MaxCalls) =>
        /\ result.raised = first.raised
        /\ result.ret = first.ret

\* Two deterministic calls of ml_optimizer on a query with more joins than it
\* lists all orders of, begun with the generator in different states.
C5_Witness ==
    /\ request.generator = "ml_optimizer"
    /\ request.deterministic
    /\ calls = MaxCalls
    /\ seen[1] # seen[2]
    /\ Len(ml_extract_structure(request.query).joins) > AllPermutationsMax
    /\ Len(result.ret) >= 3

(***************************************************************************)
(* The costs                                                               *)
(***************************************************************************)

\* get_best_cost_estimate has just returned: costs is the dictionary it
\* collected, and the last result holds its choice.
BestReturned ==
    \/ pc = "sort"
    \/ pc = "explain_cost" /\ round = "comprehensive" /\ results # <<>>

\* The sources in the order of their priority.
Priority == <<"actual_runtime", "db_estimate", "ml_prediction", "heuristic">>

\* a <= b on floats.
AtMost(a, b) == a.kind = "num" /\ b.kind = "num" /\ a.v <= b.v

\* C6: get_best_cost_estimate returns the value of the first source that
\* produced one, in the order actual runtime, planner estimate, model
\* prediction, heuristic; with neither runtime nor planner estimate it is the
\* prediction of the model when one is loaded and predicts, and the heuristic
\* value otherwise.
C6_FirstAvailable ==
    BestReturned =>
        LET last == results[Len(results)]
            best == last.costs["best_estimate"]
        IN /\ \E k \in 1..Len(Priority) :
                 /\ Priority[k] \in DOMAIN costs
                 /\ best = costs[Priority[k]]
                 /\ \A j \in 1..(k - 1) : Priority[j] \notin DOMAIN costs
           /\ ({"actual_runtime", "db_estimate"} \cap DOMAIN costs = {}) =>
                 best = IF model = "predicts" THEN Num(Predictions[last.query])
                        ELSE costs["heuristic"]

\* With the database down, a loaded model gave the effective cost.
C6_Witness ==
    /\ BestReturned
    /\ model = "predicts"
    /\ DOMAIN costs = {"ml_prediction", "heuristic"}
    /\ results[Len(results)].costs["best_estimate"]
       = Num(Predictions[results[Len(results)].query])

\* C7: whatever the query and whatever fails (database, planner, model),
\* get_comprehensive_cost and get_best_cost_estimate return: no exception
\* leaves them, the dictionary returned has a heuristic value, and every
\* result gets an effective cost.
C7_AlwaysReturns ==
    /\ pc = "raised" => round = "rank"
    /\ pc = "return" => "heuristic" \in DOMAIN costs
    /\ \A k \in 1..Len(results) : "best_estimate" \in DOMAIN results[k].costs

\* C8: the dictionary of get_comprehensive_cost has an entry for a source
\* exactly when the source gave a number that is not NaN: a plan without a
\* total cost or with NaN for it, a reply without run time and a model that
\* predicts NaN leave no entry.
C8_EntryIffNumber ==
    /\ pc = "explain_runtime" =>
          ("db_estimate" \in DOMAIN costs
              <=> (reply.up /\ reply.plan /\ reply.total_cost.kind = "num"))
    /\ pc = "ml_prediction" =>
          ("actual_runtime" \in DOMAIN costs
              <=> (reply.up /\ (\/ reply.execution_time.kind = "num"
                                \/ reply.plan /\ reply.actual_total_time.kind = "num")))
    /\ pc = "heuristic" => ("ml_prediction" \in DOMAIN costs <=> model = "predicts")
    /\ \A key \in DOMAIN costs : costs[key].kind = "num"

\* C9: the heuristic estimate of a query is at least 1.0, also the value
\* get_heuristic_cost stores under 'heuristic', whatever the database
\* returns for the query.
C9_HeuristicAtLeastOne ==
    "heuristic" \in DOMAIN costs => AtMost(Num(Scale), costs["heuristic"])

\* C10: compare_queries returns one result for the original and one for each
\* candidate, in the order of non-decreasing best_estimate (no result is
\* cheaper than one before it); results of equal
\* cost keep the order of the input, so 'original' comes first unless a
\* candidate is strictly cheaper.
C10_SortedPermutation ==
    /\ raised # "ZeroDivisionError"
    /\ pc = "done" =>
          /\ Len(results) = Len(queries)
          /\ \A k \in 1..Len(queries) :
                \E m \in 1..Len(results) :
                   results[m].name = query_name(k) /\ results[m].query = queries[k]
          /\ \A m, n \in 1..Len(results) :
                m < n => ~Less(results[n].costs["best_estimate"],
                               results[m].costs["best_estimate"])
          /\ \A j, k \in 1..Len(queries) : \A m, n \in 1..Len(results) :
                (/\ j < k
                 /\ results[m].name = query_name(j) /\ results[n].name = query_name(k)
                 /\ results[m].costs["best_estimate"] = results[n].costs["best_estimate"])
                => m < n
          /\ (\A m \in 1..Len(results) :
                 ~Less(results[m].costs["best_estimate"],
                       CHOOSE c \in {results[n].costs["best_estimate"] :
                                        n \in {n \in 1..Len(results) :
                                                 results[n].name = "original"}} : TRUE))
             => results[1].name = "original"


(***************************************************************************)
(* The recommendation                                                      *)
(***************************************************************************)

\* The effective cost the results hold for the query q.
EffectiveCost(q) ==
    results[CHOOSE k \in 1..Len(results) : results[k].query = q].costs["best_estimate"]

\* The query q is recommended: it is not dearer than the original, and it is
\* the original unless it is strictly cheaper.
Recommendable(q) ==
    /\ ~Less(EffectiveCost(queries[1]), EffectiveCost(q))
    /\ q # queries[1] => Less(EffectiveCost(q), EffectiveCost(queries[1]))

\* C11: the query recommended as best (results[0] of compare_queries,
\* best_query of main and of best_candidate_for_query) never has an effective
\* cost strictly greater than the original's, and it differs from the
\* original only when its effective cost is strictly lower.
C11_BestNotWorse ==
    /\ pc = "done" => Recommendable(results[1].query)
    /\ (pc = "recommended" /\ round = "rank") => Recommendable(chosen.query)
    /\ (pc = "recommended" /\ round = "main_best") => chosen.query = queries[1]
    /\ pc = "picked" => Recommendable(chosen.query)

\* compare_queries and best_candidate_for_query have each put a candidate
\* before a dearer original, and main has kept such a candidate.
C11_Witness ==
    /\ pc \in {"recommended", "picked"}
    /\ Len(results) = 3
    /\ chosen.query # queries[1]
    /\ chosen.query = results[1].query
    /\ results[3].name = "original"


(***************************************************************************)
(* The rewrites of one strategy                                            *)
(***************************************************************************)

\* The shape the query of the request was written from.
ShapeOf(q) == CHOOSE sh \in Shapes : QueryOf(sh) = q

\* The top-level conjuncts of the WHERE clause of a shape, each intact.
Conjuncts(sh) == [k \in 1..Len(sh.where) |-> CondText(sh.where[k], sh.style = "lower")]

\* The query with its top-level conjuncts stably sorted by Score and rejoined
\* with AND, or the query itself when that is their order already.
Reordered(q, Score(_)) ==
    LET sh == ShapeOf(q)
        sorted == SortedBy(Conjuncts(sh), Score)
    IN IF sh.where = <<>> \/ sorted = Conjuncts(sh) THEN q
       ELSE ReplaceAll(q, CondsText(sh.where, sh.style = "lower"),
                       join(<<" ", "AND", " ">>, sorted))

\* C12: reorder_where_conditions (simple_candidates and optimizer) splits the
\* WHERE clause at its top-level ANDs only: the query it returns has the
\* conjuncts of the original, each intact (the AND of BETWEEN x AND y is no
\* split point), stably sorted by selectivity rank and rejoined with AND, and
\* is the original when that is their order already.
C12_TopLevelConjuncts ==
    calls >= 1 =>
        /\ simple_reorder_where_conditions(request.query)
           = Reordered(request.query, simple_selectivity_score)
        /\ reorder_where_conditions(request.query)
           = Reordered(request.query, selectivity_score)

\* The rank the conjuncts of the family should get: an equality is most
\* selective, then BETWEEN and the comparisons, then IN, then LIKE.
RankOf(c) ==
    CASE c = "eq" -> 1
      [] c \in {"between", "gt", "ge"} -> 2
      [] c = "in" -> 3
      [] c = "like" -> 4
      [] OTHER -> 5

\* C13: selectivity_score of simple_candidates ranks a conjunct 1 exactly when
\* it is an equality test without LIKE, 2 when it is a BETWEEN or a comparison
\* (>, <, >=, <=), 3 when it is an IN test, 4 when it is a LIKE test and 5
\* otherwise: salary >= 5 is a range comparison, not an equality.
C13_SelectivityRanks ==
    (request.generator = "simple" /\ calls >= 1) =>
        LET sh == ShapeOf(request.query)
        IN \A k \in 1..Len(sh.where) :
              simple_selectivity_score(Conjuncts(sh)[k]) = RankOf(sh.where[k])


\* How often the keyword occurs in the text, and where it does first.
KwCount(q, kw) == Cardinality({i \in 1..Len(q) : IsKw(q[i], kw)})

KwFirst(q, kw) == CHOOSE i \in 1..Len(q) : IsKw(q[i], kw) /\ \A j \in 1..(i - 1) : ~IsKw(q[j], kw)

\* C14: convert_to_where_joins rewrites only a query of the shape FROM t1 a1
\* JOIN t2 a2 ON cond [WHERE w] with GROUP BY / ORDER BY after it: the rewrite
\* has no JOIN, and each GROUP BY / ORDER BY of the original once and in the
\* original order; every other query with at most two joins (one with two
\* JOINs, say) comes back unchanged.
C14_ExactShapeOnly ==
    (request.generator = "simple" /\ calls >= 1 /\ JoinCount(request.query) <= 2) =>
        LET q == request.query
            r == convert_to_where_joins(q)
        IN /\ JoinCount(q) # 1 => r = q
           /\ r # q =>
                 /\ KwCount(r, "join") = 0
                 /\ KwCount(r, "order") = KwCount(q, "order")
                 /\ KwCount(r, "group") = KwCount(q, "group")
                 /\ (KwCount(q, "order") = 1 /\ KwCount(q, "group") = 1) =>
                       (KwFirst(r, "group") < KwFirst(r, "order")
                           <=> KwFirst(q, "group") < KwFirst(q, "order"))


\* The candidates of the join-permutation strategy among those a generator
\* built, before the duplicates went and the list was cut.
JoinOrderings ==
    {k \in 1..Len(result.candidates) :
        result.candidates[k].strategy
            \notin {"original", "index_hint_nested_loop", "index_hint_hash",
                    "index_hint_primary", "where_reorder", "reverse_joins",
                    "predicate_pushdown", "exists_rewrite"}}

RECURSIVE Factorial(_)
Factorial(n) == IF n <= 1 THEN 1 ELSE n * Factorial(n - 1)

\* C15: for a query with n joins, 2 <= n <= 4, the join-permutation strategy
\* (optimizer and ml_optimizer) emits one rebuilt query for each of the n!
\* orders of the joins; only with more than 4 joins does it sample at most
\* `limit` orders; with fewer than 2 joins it emits nothing.
C15_AllOrders ==
    (/\ request.generator \in {"optimizer", "ml_optimizer"}
     /\ calls >= 1 /\ request.limit >= 1 /\ ~result.raised) =>
        LET n == ShapeOf(request.query).joins
            emitted == Cardinality(JoinOrderings)
        IN /\ n < 2 => emitted = 0
           /\ (2 <= n /\ n <= 4) => emitted = Factorial(n)
           /\ n > 4 => emitted <= request.limit

(***************************************************************************)
(* The join order                                                          *)
(***************************************************************************)

\* The locals of optimize_join_order once the seed is chosen.
Seeded == jo.pc \in {"loop", "returned", "rebuilt"} /\ jo.alias_map # <<>>

JoinAliases == [k \in 1..Len(jo.alias_map) |-> jo.alias_map[k].key]

\* How often the text after WHERE names alias a.
WhereCount(a) == DotCount(Lower(where_block(jo.query)), a)

SizeOf(a) == DictGet(jo.size_by_alias, a, 1000)

\* The aliases the WHERE text names strictly more often than every other one.
MostReferenced ==
    {a \in {JoinAliases[k] : k \in 1..Len(JoinAliases)} :
        \A b \in {JoinAliases[k] : k \in 1..Len(JoinAliases)} \ {a} :
            WhereCount(a) > WhereCount(b)}

SmallestTable(a) == \A k \in 1..Len(JoinAliases) : SizeOf(a) <= SizeOf(JoinAliases[k])

\* C16: the seed of the order is the alias the WHERE text names strictly more
\* often than every other alias; in every other case (no alias named, no
\* WHERE, a tie for the most named) it is an alias of a smallest table.
C16_SeedChoice ==
    Seeded =>
        IF MostReferenced # {} THEN jo.order[1] \in MostReferenced
        ELSE SmallestTable(jo.order[1])

\* The names the tables of the query go by: the alias of the FROM table (its
\* own name when it has none), then the aliases of the joined tables.
QueryAliases(sh) ==
    <<IF sh.from = "employees" THEN "e" ELSE "t1">>
    \o [k \in 1..sh.joins |-> JoinTables[k].alias]

JoinShapeOf(q) == CHOOSE sh \in JoinShapes : QueryOf(sh) = q

\* How often a occurs in the list s.
Occurrences(s, a) == Cardinality({k \in 1..Len(s) : s[k] = a})

\* Is s the list t without some of its items?
IsSubSeqOf(s, t) ==
    \E keep \in SUBSET {t[k] : k \in 1..Len(t)} : s = Filter(t, keep)

\* C17: optimize_join_order returns after at most min(max_steps, n - 1) rounds
\* of its loop, n the number of aliases; every alias of the query occurs
\* exactly once in the list returned, and the aliases the loop did not place
\* follow the placed ones in their original order.
C17_EveryAliasOnce ==
    jo.pc \in {"returned", "rebuilt"} =>
        LET aliases == QueryAliases(JoinShapeOf(jo.query))
            n       == Len(aliases)
        IN /\ jo.steps <= jo.max_steps
           /\ jo.steps <= n - 1
           /\ Len(jo.ret) = n
           /\ \A k \in 1..n : Occurrences(jo.ret, aliases[k]) = 1
           /\ jo.ret = jo.order \o jo.remaining
           /\ Len(jo.order) = jo.steps + 1
           /\ IsSubSeqOf(jo.remaining, aliases)

\* The join of the input query that brings in alias a, if there is one.
JoinOfAlias(a) == {k \in 1..JoinShapeOf(jo.query).joins : JoinTables[k].alias = a}

\* The line reorder_query_by_alias_order has to write for join k: JOIN, the
\* table, the alias, ON, the condition of the input query, the line break.
JoinLine(k) ==
    <<"JOIN", " ", JoinTables[k].table, " ", JoinTables[k].alias, " ", "ON", " ">>
    \o JoinTables[k].cond \o <<"\n">>

\* The rebuild gave a query of its own.
Rebuilt == jo.pc = "rebuilt" /\ ~jo.raised /\ jo.out # jo.query

\* C18: reorder_query_by_alias_order returns its input unchanged, or a query
\* where the JOIN of every alias after the first carries exactly the ON
\* condition the input query has for that alias, nothing more and nothing less.
C18_ConditionsVerbatim ==
    Rebuilt =>
        \A i \in 2..Len(jo.alias_order) :
            \E k \in JoinOfAlias(jo.alias_order[i]) : Contains(jo.out, JoinLine(k))

(***************************************************************************)
(* A strategy that raises                                                  *)
(***************************************************************************)

\* What generate_candidates returns when its join strategy gives nothing.
WithoutJoinOrders(query, lim) ==
    Prefix(unique_candidates(<<[strategy |-> "original", sql |-> query]>>
                             \o index_hints(query) \o where_reorder(query)),
           lim)

\* C19: when a strategy raises inside generate_candidates of the optimizer, no
\* exception reaches the caller, and the list returned is the one the call
\* gives had that strategy produced no candidate: the candidates of the other
\* strategies are still there.
C19_OtherStrategiesKept ==
    (request.generator = "optimizer" /\ calls > 0) =>
        /\ ~result.raised
        /\ result.fallback => result.ret = WithoutJoinOrders(request.query, request.limit)

(***************************************************************************)
(* What runs the query                                                     *)
(***************************************************************************)

\* C20: asking for the estimate of the planner never runs the query, and
\* neither does the heuristic: the database runs a query of the comparison
\* only for the measurement of its run time.
C20_EstimateRunsNothing == executed \subseteq {"get_explain_runtime"}

(***************************************************************************)
(* The calls of one evaluation                                             *)
(***************************************************************************)

\* A step that calls one of the four cost sources for the current query.
SourceCall ==
    /\ pc \in {"explain_cost", "explain_runtime", "ml_prediction", "heuristic"}
    /\ pc' # pc

\* C21: while compare_queries evaluates one query, each cost source is called
\* at most once: no source is called again in a second walk for the query the
\* first walk was made for.
C21_EachSourceOnce == [][SourceCall => round # "best"]_vars

(***************************************************************************)
(* One query at a time                                                     *)
(***************************************************************************)

\* Does the list of issued calls come back to a query after a call for
\* another one?
Interleaved(log) ==
    \E i, j, k \in 1..Len(log) : i < j /\ j < k /\ log[i] = log[k] /\ log[j] # log[i]

\* The run measures actual run times.
Measuring ==
    \/ run.driver = "compare_queries"
    \/ run.driver = "run_benchmark" /\ run.mode = "analyze"

\* C22: while run times are measured, at most one query is with the database
\* at any time: a call is issued when the call before it has returned.
\* compare_queries makes every call for one query before the first call for
\* the next; run_benchmark makes every call for one query of the workload
\* before the first for the next, and goes back and forth between the
\* original and the best candidate of that query.
C22_OneQueryAtATime ==
    Measuring =>
        /\ Cardinality(run.in_flight) <= 1
        /\ run.driver = "compare_queries" => ~Interleaved(run.issued)
        /\ ~Interleaved([k \in 1..Len(run.issued) |-> run.issued[k][1]])

\* run_benchmark has measured the original and another best candidate.
C22_Witness ==
    /\ run.driver = "run_benchmark"
    /\ run.mode = "analyze"
    /\ run.pc = "done"
    /\ run.best > 1
    /\ Len(run.issued) >= 4

\* C22 as the spec words it: while run times are measured, every call for
\* one candidate is made before any call for the next.
C22_CandidateByCandidate ==
    Measuring => Cardinality(run.in_flight) <= 1 /\ ~Interleaved(run.issued)

(***************************************************************************)
(* The LIMIT rule and the hints of generate_simple_candidates              *)
(***************************************************************************)

\* The clauses the query of a shape is written with.
HasOrderBy(sh) == sh.tail \in {"order", "order_col", "group_order", "order_limit"}

HasLimitClause(sh) == sh.tail = "order_limit"

\* The candidates generate_simple_candidates built in its last call.
SimpleBuilt == {result.candidates[k] : k \in 1..Len(result.candidates)}

\* C23: generate_simple_candidates builds the LIMIT candidate exactly when the
\* query has an ORDER BY clause and no LIMIT clause; the candidate is the
\* query without its trailing semicolon and whitespace, then " LIMIT 1000";
\* no candidate has two LIMIT clauses.
C23_LimitRule ==
    (request.generator = "simple" /\ calls > 0) =>
        LET sh == ShapeOf(request.query)
        IN /\ (rstrip(request.query) \o <<" ", "LIMIT", " ", "1000">>) \in SimpleBuilt
                <=> (HasOrderBy(sh) /\ ~HasLimitClause(sh))
           /\ \A c \in SimpleBuilt : KwCount(c, "limit") <= 1

\* The query with one hint comment right after its first SELECT keyword.
HintAfterSelect(q, h) ==
    LET at == KwFirst(q, "select")
    IN SubSeq(q, 1, at) \o <<" ", "/*+", " ", h, " ", "*/">> \o SubSeq(q, at + 1, Len(q))

\* C24: for a query with a JOIN, its keywords in any letter case, and a limit
\* of 3 or more, generate_simple_candidates returns the nested-loop and the
\* hash-join candidate: the query with one hint comment right after the first
\* SELECT keyword and nothing else changed.
C24_HintsAfterSelect ==
    (request.generator = "simple" /\ calls > 0 /\ request.limit >= 3
     /\ JoinCount(request.query) > 0) =>
        \A h \in {"USE_NL", "USE_HASH"} :
            \E k \in 1..Len(result.ret) :
                result.ret[k] = HintAfterSelect(request.query, h)

(***************************************************************************)
(* The effective cost of a result                                          *)
(***************************************************************************)

\* The value of the source of highest priority among the estimates e.
FirstByPriority(e) ==
    e[Priority[CHOOSE k \in 1..Len(Priority) :
                  /\ Priority[k] \in DOMAIN e
                  /\ \A j \in 1..(k - 1) : Priority[j] \notin DOMAIN e]]

\* C25: in every result of compare_queries, best_estimate is the value that
\* the same result holds for the source of highest priority present in it,
\* also when the database changes between the calls.
C25_BestOfOwnEstimates ==
    \A k \in 1..Len(results) :
        (round # "benchmark" /\ "heuristic" \in DOMAIN results[k].costs) =>
            results[k].costs["best_estimate"] = FirstByPriority(results[k].costs)

(***************************************************************************)
(* The rounds of the greedy loop                                           *)
(***************************************************************************)

\* The ON condition the query has for alias r (<<>> for the FROM table).
OnConditionOf(r) ==
    IF JoinOfAlias(r) = {} THEN <<>>
    ELSE JoinTables[CHOOSE k \in JoinOfAlias(r) : TRUE].cond

\* Does the ON condition of r name one of the aliases placed, or its table?
ConnectedTo(r, placed) ==
    \E a \in placed :
        \/ DotCount(OnConditionOf(r), a) > 0
        \/ DotCount(OnConditionOf(r), DictGet(jo.alias_map, a, "")) > 0

\* C26: in every round of the loop of optimize_join_order, when some remaining
\* alias is connected to the aliases placed, the alias appended is a connected
\* one of least row estimate among the connected; when none is connected, it
\* is one of least row estimate among all remaining.
C26_GreedyChoice ==
    Seeded =>
        \A i \in 2..Len(jo.order) :
            LET placed    == {jo.order[k] : k \in 1..(i - 1)}
                remaining == {JoinAliases[k] : k \in 1..Len(JoinAliases)} \ placed
                connected == {r \in remaining : ConnectedTo(r, placed)}
            IN IF connected # {}
               THEN /\ jo.order[i] \in connected
                    /\ \A r \in connected : SizeOf(jo.order[i]) <= SizeOf(r)
               ELSE \A r \in remaining : SizeOf(jo.order[i]) <= SizeOf(r)

(***************************************************************************)
(* The row counts of the ordering                                          *)
(***************************************************************************)

\* Does the catalog return an estimate for the table of alias a?
CatalogKnows(a) ==
    /\ jo.rows # "down"
    /\ reltuples(jo.rows, DictGet(jo.alias_map, a, "")).found

\* C27: the row count optimize_join_order uses for an alias is the catalog's
\* estimate whenever the catalog returns one, an estimate of 0 rows included,
\* and is 1000 when the catalog returns none; the ordering is not aborted.
C27_CatalogEstimateUsed ==
    Seeded =>
        /\ ~jo.raised
        /\ \A k \in 1..Len(jo.alias_map) :
             LET a == jo.alias_map[k].key
             IN IF CatalogKnows(a)
                THEN SizeOf(a) = reltuples(jo.rows, jo.alias_map[k].value).value
                ELSE SizeOf(a) = 1000

(***************************************************************************)
(* The join permutations of the optimizer                                  *)
(***************************************************************************)

\* The query of a shape with its joins written in the order perm, every
\* other clause where it was.
QueryInOrder(sh, perm) ==
    LET lc    == sh.style = "lower"
        lines == sh.style = "lines"
    IN <<Kw("SELECT", lc), " ">>
       \o (IF sh.style = "hint" THEN <<"/*+", " ", "USE_NL", " ", "*/", " ">> ELSE <<>>)
       \o <<"e.emp_id">> \o Sep(lines) \o <<Kw("FROM", lc), " ">>
       \o (IF sh.from = "employees" THEN <<"employees", " ", "e">> ELSE <<"t1">>)
       \o (IF sh.style = "tablehint" THEN <<" ", "/*+", " ", "USE_NL(e)", " ", "*/">> ELSE <<>>)
       \o Flatten([k \in 1..Len(perm) |-> JoinText(perm[k], lc, lines)])
       \o WhereText(sh.where, lc, lines)
       \o TailText(sh.tail, lc, lines)

\* The orders in which the joins of a shape can be written.
JoinOrders(sh) ==
    LET all == permutations([k \in 1..sh.joins |-> k])
    IN {all[k] : k \in 1..Len(all)}

\* The join-permutation candidates that generate_candidates has built.
JoinPermutationCandidates ==
    {result.candidates[k].sql : k \in
        {j \in 1..Len(result.candidates) :
            result.candidates[j].strategy \in {JoinOrderTag(n) : n \in 1..7}}}

\* C28: every join-permutation candidate of generate_join_permutations is the
\* original with its joins in another order: select list, FROM table and
\* alias, WHERE clause and the trailing GROUP BY / ORDER BY / LIMIT clauses
\* are the original's, and each join is there once with its type, table, alias
\* and ON condition (the white space between the clauses apart).
C28_OnlyJoinOrderChanges ==
    (request.generator = "optimizer" /\ calls >= 1) =>
        \A c \in JoinPermutationCandidates :
            \E perm \in JoinOrders(ShapeOf(request.query)) :
                normalized(c) = normalized(QueryInOrder(ShapeOf(request.query), perm))

(***************************************************************************)
(* What the rebuild leaves alone                                           *)
(***************************************************************************)

\* The text of q before its first keyword kw (all of q when it has none).
Before(q, kw) ==
    With(FirstAt(1, Len(q), LAMBDA k : KwAt(q, k, kw)), LAMBDA at :
        IF at = 0 THEN q ELSE SubSeq(q, 1, at - 1))

\* The text of q from its first keyword kw to its end (<<>> when it has none).
From(q, kw) ==
    With(FirstAt(1, Len(q), LAMBDA k : KwAt(q, k, kw)), LAMBDA at :
        IF at = 0 THEN <<>> ELSE SubSeq(q, at, Len(q)))

\* C29: reorder_query_by_alias_order changes only the FROM/JOIN block: the
\* text before the first FROM and the text from WHERE to the end are those of
\* the input, and in a query without WHERE the trailing ORDER BY clause is
\* still there, once, after the last of the rebuilt joins.
C29_OnlyFromBlockChanges ==
    (jo.pc = "rebuilt" /\ ~jo.raised) =>
        /\ Before(jo.out, "from") = Before(jo.query, "from")
        /\ From(jo.out, "where") = From(jo.query, "where")
        /\ From(jo.query, "where") = <<>> =>
             /\ strip(From(jo.out, "order")) = strip(From(jo.query, "order"))
             /\ From(From(jo.out, "order"), "join") = <<>>

(***************************************************************************)
(* The orders that rewrite the query                                       *)
(***************************************************************************)

\* The alias the query gives its FROM table (the table's own name when it
\* gives none).
FromAlias == QueryAliases(JoinShapeOf(jo.query))[1]

\* The first alias reorder_query_by_alias_order reads after FROM: the word
\* that follows the table, alias or not.
CapturedFromAlias == jo.alias_map[1].key

=============================================================================
